---- MODULE Spec2Model ----
(***************************************************************************)
(* Model of AwsIot::AwsIotMqttClient (src/test.h): the connection          *)
(* controller, its reconnect timer, its subscription table and the         *)
(* handling of the transport's event feed.                                 *)
(*                                                                         *)
(* Every public operation and the event handler take mutex_ for their      *)
(* whole body, so each one is a single atomic action.  The transport       *)
(* (esp-mqtt) and the FreeRTOS timer service run on their own tasks: an    *)
(* event that the transport has dispatched, or a timer callback that has   *)
(* expired, waits for the mutex and is processed in a later step.          *)
(***************************************************************************)
EXTENDS Integers, Sequences, FiniteSets, TLC

(***************************************************************************)
(* Bounds of the model.                                                    *)
(***************************************************************************)
\* number of subscription slots (kMaxSubs is declared in the class header)
kMaxSubs == 2
\* size of a topic buffer (kMaxTopicLen is declared in the class header)
kMaxTopicLen == 64
\* the reconnect delay is an unsigned machine word; its arithmetic is
\* modelled modulo DelayModulus, a scaled-down word size
DelayModulus == 32
\* transport handles that may be allocated at the same time before the
\* transport's allocator is exhausted
MaxLiveHandles == 2

(***************************************************************************)
(* Input domains.                                                          *)
(***************************************************************************)
Slots == 1..kMaxSubs

\* kMaxSubs + 1 distinct application filters, all shorter than a topic buffer
Filters == {"app/" \o ToString(i) : i \in 1..(kMaxSubs + 1)}

RECURSIVE Pad(_, _)
Pad(s, n) == IF Len(s) >= n THEN s ELSE Pad(s \o "x", n)

\* a filter that does not fit a topic buffer
LongFilter == Pad("app/long/", kMaxTopicLen + 1)

SubscribeFilters == Filters \cup {LongFilter}

NullCb == "null"
\* (qos, handler) pairs passed to Subscribe
SubscribeArgs == {<<0, "h1">>, <<1, "h2">>, <<1, NullCb>>}

ValidConfig ==
    [aws_endpoint |-> "broker", client_id |-> "client", thing_name |-> "T",
     port |-> 8883, root_ca_pem |-> TRUE, device_cert_pem |-> TRUE,
     private_key_pem |-> TRUE, base_reconnect_ms |-> 1, max_reconnect_ms |-> 5]

\* the default-constructed MqttConfig held before Initialize
EmptyConfig ==
    [aws_endpoint |-> "", client_id |-> "", thing_name |-> "",
     port |-> 0, root_ca_pem |-> FALSE, device_cert_pem |-> FALSE,
     private_key_pem |-> FALSE, base_reconnect_ms |-> 0, max_reconnect_ms |-> 0]

\* configurations offered to Initialize: the valid one and one per defect
Configs ==
    { ValidConfig,
      [ValidConfig EXCEPT !.aws_endpoint = ""],
      [ValidConfig EXCEPT !.client_id = ""],
      [ValidConfig EXCEPT !.thing_name = ""],
      [ValidConfig EXCEPT !.port = 0],
      [ValidConfig EXCEPT !.root_ca_pem = FALSE],
      [ValidConfig EXCEPT !.device_cert_pem = FALSE],
      [ValidConfig EXCEPT !.private_key_pem = FALSE] }

\* outcomes of the transport calls made by one Connect(): all succeed, or
\* the first failure is Init, RegisterEvent or Start
ConnectOk == [init_ok |-> TRUE, register_ok |-> TRUE, start_ok |-> TRUE]
ConnectEnvs ==
    { ConnectOk,
      [ConnectOk EXCEPT !.init_ok = FALSE],
      [ConnectOk EXCEPT !.register_ok = FALSE],
      [ConnectOk EXCEPT !.start_ok = FALSE] }

\* outcomes of the FreeRTOS timer calls made by one StartReconnectTimer():
\* all succeed, xTimerCreate fails, or the timer cannot be started
TimerOk == [create_ok |-> TRUE, period_ok |-> TRUE, start_ok |-> TRUE]
TimerEnvs ==
    { TimerOk,
      [TimerOk EXCEPT !.create_ok = FALSE],
      [TimerOk EXCEPT !.period_ok = FALSE, !.start_ok = FALSE] }

\* events of the transport's feed; SUBSCRIBED stands for the acknowledgement
\* events (SUBSCRIBED, UNSUBSCRIBED, PUBLISHED), which are handled alike
EventIds == {"BEFORE_CONNECT", "CONNECTED", "DISCONNECTED", "SUBSCRIBED",
             "ERROR", "DELETED"}

NoEvent == [id |-> "NONE"]

EmptySub ==
    [topic |-> "", qos |-> 0, callback |-> NullCb,
     active |-> FALSE, pending_subscribe |-> FALSE]

(***************************************************************************)
(* State.                                                                  *)
(***************************************************************************)
VARIABLES
    initialized,            \* initialized_
    connected,              \* connected_
    connecting,             \* connecting_
    disconnect_requested,   \* disconnect_requested_
    client_handle,          \* client_handle_ != nullptr
    config,                 \* config_
    current_reconnect_delay_ms,
    reconnect_timer_handle, \* reconnect_timer_handle_ != nullptr
    subscriptions,          \* subscriptions_[kMaxSubs]
    active_subscription_count,
    on_connected_cb,        \* on_connected_cb_ is set
    on_disconnected_cb,     \* on_disconnected_cb_ is set
    shadow_update_cb,       \* shadow_update_cb_: the handler held, or NullCb
    shadow_get_cb,          \* shadow_get_cb_
    job_notify_cb,          \* job_notify_cb_
    halted,                 \* "no", or how the client stopped for good
    armed_timers,           \* FreeRTOS: one-shot reconnect timers now active
    tick_pending,           \* timer task: expired callback waiting for mutex_
    session,                \* transport: state of the session last started
    live_handles,           \* transport: client objects allocated
    event_pending,          \* transport task: dispatched event waiting for mutex_
    impl,                   \* the AwsIotClientImpl object, its threads and
                            \* its SDK client
    last                    \* the operation that ran last: its arguments, what
                            \* it returned, the transport and timer calls and
                            \* the user callbacks it made, and the flags it found

vars == <<initialized, connected, connecting, disconnect_requested,
          client_handle, config, current_reconnect_delay_ms,
          reconnect_timer_handle, subscriptions, active_subscription_count,
          on_connected_cb, on_disconnected_cb, shadow_update_cb,
          shadow_get_cb, job_notify_cb, halted, armed_timers, tick_pending,
          session, live_handles, event_pending, last, impl>>

\* the object and its collaborators as one value, threaded through the
\* private methods below
Pack ==
    [initialized |-> initialized, connected |-> connected,
     connecting |-> connecting, disconnect_requested |-> disconnect_requested,
     client_handle |-> client_handle, config |-> config,
     delay |-> current_reconnect_delay_ms,
     reconnect_timer_handle |-> reconnect_timer_handle,
     subs |-> subscriptions, count |-> active_subscription_count,
     on_connected_cb |-> on_connected_cb,
     on_disconnected_cb |-> on_disconnected_cb,
     shadow_update_cb |-> shadow_update_cb,
     shadow_get_cb |-> shadow_get_cb, job_notify_cb |-> job_notify_cb,
     halted |-> halted,
     armed_timers |-> armed_timers, session |-> session,
     live_handles |-> live_handles,
     mutex_held |-> FALSE, cb_body |-> "returns", relock |-> "deadlock",
     calls |-> <<>>, cbs |-> <<>>, cb_locks |-> <<>>, unlocked |-> <<>>]

\* the flags an operation finds when it takes mutex_
Pre ==
    [connected |-> connected, connecting |-> connecting,
     disconnect_requested |-> disconnect_requested,
     client_handle |-> client_handle, armed_timers |-> armed_timers,
     count |-> active_subscription_count]

Commit(m, op, args, ret) ==
    /\ halted = "no"
    /\ halted' = m.halted
    /\ shadow_update_cb' = m.shadow_update_cb
    /\ shadow_get_cb' = m.shadow_get_cb
    /\ job_notify_cb' = m.job_notify_cb
    /\ initialized' = m.initialized
    /\ connected' = m.connected
    /\ connecting' = m.connecting
    /\ disconnect_requested' = m.disconnect_requested
    /\ client_handle' = m.client_handle
    /\ config' = m.config
    /\ current_reconnect_delay_ms' = m.delay
    /\ reconnect_timer_handle' = m.reconnect_timer_handle
    /\ subscriptions' = m.subs
    /\ active_subscription_count' = m.count
    /\ on_connected_cb' = m.on_connected_cb
    /\ on_disconnected_cb' = m.on_disconnected_cb
    /\ armed_timers' = m.armed_timers
    /\ session' = m.session
    /\ live_handles' = m.live_handles
    /\ impl' = impl
    /\ last' = [op |-> op, args |-> args, ret |-> ret, calls |-> m.calls,
                cbs |-> m.cbs, cb_locks |-> m.cb_locks,
                unlocked |-> m.unlocked, pre |-> Pre]

Result(m, ret) == [m |-> m, ret |-> ret]

Call(m, c) == [m EXCEPT !.calls = Append(@, c)]

\* std::lock_guard<std::mutex> lock(mutex_)
Lock(m) == [m EXCEPT !.mutex_held = TRUE]

\* an access to a member the mutex guards, noted when made without it
Touch(m, member) ==
    IF m.mutex_held THEN m ELSE [m EXCEPT !.unlocked = Append(@, member)]

\* what a user callback does: it returns, or it calls a public operation of
\* the same client before it returns
CallbackBodies == {"returns", "calls_client"}

\* std::mutex::lock() by the thread that owns the mutex is undefined: the
\* thread blocks for good, or lock() throws out of the event handler
RelockOutcomes == {"deadlock", "abort"}

\* a user callback is invoked.  A callback that calls back into the client
\* locks mutex_ again: with the mutex held by its own thread the call never
\* returns.
Callback(m, c) ==
    LET m1 == [m EXCEPT !.cbs = Append(@, c),
                        !.cb_locks = Append(@, m.mutex_held)]
    IN IF m.cb_body = "calls_client" /\ m.mutex_held
       THEN [m1 EXCEPT !.halted = m.relock]
       ELSE m1

(***************************************************************************)
(* Private methods: each maps the state before to the state after.         *)
(***************************************************************************)

\* CleanupMqttClient() that stops and destroys without testing the handle
CleanupMqttClient_NoHandleTest(m) ==
    [Call(Call(m, <<"Stop">>), <<"Destroy">>)
       EXCEPT !.client_handle = FALSE, !.session = "none",
              !.live_handles = IF @ > 0 THEN @ - 1 ELSE 0,
              !.connected = FALSE, !.connecting = FALSE]

\* void CleanupMqttClient()
CleanupMqttClient(m) ==
    LET m1 == IF m.client_handle
              THEN [Call(Call(m, <<"Stop">>), <<"Destroy">>)
                      EXCEPT !.client_handle = FALSE,
                             !.session = "none",
                             !.live_handles = @ - 1]
              ELSE m
    IN [m1 EXCEPT !.connected = FALSE, !.connecting = FALSE]

\* bool InitializeMqttClient()
InitializeMqttClient(m, env) ==
    LET m1 == IF m.client_handle THEN CleanupMqttClient(m) ELSE m
        m2 == Call(m1, <<"Init">>)
    IN IF ~env.init_ok
       THEN Result(m2, FALSE)
       ELSE LET m3 == Call([m2 EXCEPT !.client_handle = TRUE,
                                      !.live_handles = @ + 1],
                           <<"RegisterEvent">>)
            IN IF ~env.register_ok
               THEN Result([Call(m3, <<"Destroy">>)
                              EXCEPT !.client_handle = FALSE,
                                     !.live_handles = @ - 1], FALSE)
               ELSE Result(m3, TRUE)

\* void StopReconnectTimer()
StopReconnectTimer(m) ==
    IF m.reconnect_timer_handle /\ m.armed_timers > 0
    THEN [m EXCEPT !.armed_timers = @ - 1]
    ELSE m

\* Connect() that keeps the transport handle when the start fails
Connect_KeepsHandleOnStartFailure(m, env) ==
    IF ~m.initialized THEN Result(m, FALSE)
    ELSE IF m.connected \/ m.connecting THEN Result(m, ~m.connected)
    ELSE IF m.disconnect_requested THEN Result(m, FALSE)
    ELSE
      LET m1 == [m EXCEPT !.connecting = TRUE, !.disconnect_requested = FALSE]
          r  == InitializeMqttClient(m1, env)
      IN IF ~r.ret
         THEN Result([r.m EXCEPT !.connecting = FALSE], FALSE)
         ELSE LET m2 == Call(r.m, <<"Start">>)
              IN IF ~env.start_ok
                 THEN Result([m2 EXCEPT !.connecting = FALSE], FALSE)
                 ELSE Result(StopReconnectTimer(
                                [m2 EXCEPT !.session = "starting",
                                           !.delay = m2.config.base_reconnect_ms]),
                             TRUE)

\* Connect() without the test of disconnect_requested_
Connect_NoDisconnectCheck(m, env) ==
    IF ~m.initialized THEN Result(m, FALSE)
    ELSE IF m.connected \/ m.connecting THEN Result(m, ~m.connected)
    ELSE
      LET m1 == [m EXCEPT !.connecting = TRUE, !.disconnect_requested = FALSE]
          r  == InitializeMqttClient(m1, env)
      IN IF ~r.ret
         THEN Result([r.m EXCEPT !.connecting = FALSE], FALSE)
         ELSE LET m2 == Call(r.m, <<"Start">>)
              IN IF ~env.start_ok
                 THEN Result([CleanupMqttClient(m2) EXCEPT !.connecting = FALSE],
                             FALSE)
                 ELSE Result(StopReconnectTimer(
                                [m2 EXCEPT !.session = "starting",
                                           !.delay = m2.config.base_reconnect_ms]),
                             TRUE)

\* bool Connect()
Connect(m, env) ==
    IF ~m.initialized THEN Result(m, FALSE)
    ELSE IF m.connected \/ m.connecting THEN Result(m, ~m.connected)
    ELSE IF m.disconnect_requested THEN Result(m, FALSE)
    ELSE
      LET m1 == [m EXCEPT !.connecting = TRUE, !.disconnect_requested = FALSE]
          r  == InitializeMqttClient(m1, env)
      IN IF ~r.ret
         THEN Result([r.m EXCEPT !.connecting = FALSE], FALSE)
         ELSE LET m2 == Call(r.m, <<"Start">>)
              IN IF ~env.start_ok
                 THEN Result([CleanupMqttClient(m2) EXCEPT !.connecting = FALSE],
                             FALSE)
                 ELSE Result(StopReconnectTimer(
                                [m2 EXCEPT !.session = "starting",
                                           !.delay = m2.config.base_reconnect_ms]),
                             TRUE)

\* void StartReconnectTimer()
StartReconnectTimer(m, tenv) ==
    LET created == m.reconnect_timer_handle \/ tenv.create_ok
        m1 == [m EXCEPT !.reconnect_timer_handle = created]
    IN IF ~created THEN m1
       ELSE IF tenv.period_ok \/ tenv.start_ok
            \* xTimerChangePeriod and xTimerStart both (re)start the one
            \* timer the handle names
            THEN [Call(m1, <<"TimerArm", m1.delay>>)
                    EXCEPT !.armed_timers = IF @ > 0 THEN @ ELSE 1]
            ELSE m1

\* ScheduleReconnect() that creates and starts a fresh timer for every
\* attempt and leaves the previous one running
ScheduleReconnect_Stacking(m, tenv) ==
    LET base == m.config.base_reconnect_ms
        max  == m.config.max_reconnect_ms
        d1 == (m.delay * 2) % DelayModulus
        d2 == IF d1 > max \/ d1 < base THEN max ELSE d1
        d3 == IF d2 < base THEN base ELSE d2
        m1 == [m EXCEPT !.delay = d3]
    IN IF tenv.create_ok /\ (tenv.period_ok \/ tenv.start_ok)
       THEN [Call(m1, <<"TimerArm", d3>>)
               EXCEPT !.reconnect_timer_handle = TRUE,
                      !.armed_timers = @ + 1]
       ELSE m1

\* void ScheduleReconnect()
ScheduleReconnect(m, tenv) ==
    LET m1 == StopReconnectTimer(m)
        base == m1.config.base_reconnect_ms
        max  == m1.config.max_reconnect_ms
        d1 == (m1.delay * 2) % DelayModulus
        d2 == IF d1 > max \/ d1 < base THEN max ELSE d1
        d3 == IF d2 < base THEN base ELSE d2
    IN StartReconnectTimer([m1 EXCEPT !.delay = d3], tenv)

\* bool SubscribeInternal(topic, qos): esp_mqtt_client_subscribe returns -1
\* without a client or without an established session
SubscribeInternal(m, topic, qos, ok) ==
    LET sent == ok /\ m.client_handle /\ m.session = "up"
    IN Result(Call(m, <<"Subscribe", topic, qos, sent>>), sent)

\* bool UnsubscribeInternal(topic)
UnsubscribeInternal(m, topic, ok) ==
    LET sent == ok /\ m.client_handle /\ m.session = "up"
    IN Result(Call(m, <<"Unsubscribe", topic, sent>>), sent)

\* void ResubscribePending(): the loop over subscriptions_, from slot i on;
\* okSlots are the slots whose transport subscribe succeeds
RECURSIVE ResubscribeFrom(_, _, _)
ResubscribeFrom(m, i, okSlots) ==
    IF i > kMaxSubs THEN m
    ELSE LET sub == m.subs[i]
         IN IF sub.active /\ sub.pending_subscribe
            THEN LET r == SubscribeInternal(m, sub.topic, sub.qos, i \in okSlots)
                 IN IF r.ret
                    THEN ResubscribeFrom(
                           [r.m EXCEPT !.subs[i].pending_subscribe = FALSE],
                           i + 1, okSlots)
                    ELSE ResubscribeFrom(r.m, i + 1, okSlots)
            ELSE ResubscribeFrom(m, i + 1, okSlots)

ResubscribePending(m, okSlots) == ResubscribeFrom(m, 1, okSlots)

\* HandleConnect() that leaves the pending entries for later
HandleConnect_NoResubscribe(m, okSlots) ==
    LET m1 == [m EXCEPT !.connected = TRUE, !.connecting = FALSE,
                        !.disconnect_requested = FALSE,
                        !.delay = m.config.base_reconnect_ms]
        m2 == StopReconnectTimer(m1)
    IN IF m2.on_connected_cb THEN Callback(m2, <<"on_connected">>) ELSE m2

\* void HandleConnect()
HandleConnect(m, okSlots) ==
    LET m1 == [m EXCEPT !.connected = TRUE, !.connecting = FALSE,
                        !.disconnect_requested = FALSE,
                        !.delay = m.config.base_reconnect_ms]
        m2 == ResubscribePending(StopReconnectTimer(m1), okSlots)
    IN IF m2.on_connected_cb THEN Callback(m2, <<"on_connected">>) ELSE m2

\* HandleDisconnect() that leaves connecting_ as it finds it
HandleDisconnect_KeepsConnecting(m, tenv) ==
    LET was_connected == m.connected
        m1 == [m EXCEPT !.connected = FALSE]
        m2 == IF was_connected /\ m1.on_disconnected_cb
              THEN Callback(m1, <<"on_disconnected">>) ELSE m1
        m3 == [m2 EXCEPT !.subs =
                 [i \in Slots |->
                    IF m2.subs[i].active
                    THEN [m2.subs[i] EXCEPT !.pending_subscribe = TRUE]
                    ELSE m2.subs[i]]]
    IN IF m2.halted # "no" THEN m2
       ELSE IF ~m3.disconnect_requested
       THEN ScheduleReconnect(m3, tenv)
       ELSE IF m3.client_handle THEN CleanupMqttClient(m3) ELSE m3

\* HandleDisconnect() without the loop that marks the active entries pending
HandleDisconnect_NoMarking(m, tenv) ==
    LET was_connected == m.connected
        m1 == [m EXCEPT !.connected = FALSE, !.connecting = FALSE]
        m2 == IF was_connected /\ m1.on_disconnected_cb
              THEN Callback(m1, <<"on_disconnected">>) ELSE m1
    IN IF m2.halted # "no" THEN m2
       ELSE IF ~m2.disconnect_requested
       THEN ScheduleReconnect(m2, tenv)
       ELSE IF m2.client_handle THEN CleanupMqttClient(m2) ELSE m2

\* HandleDisconnect() that notifies the application of every disconnect
\* event, whatever the state it arrives in
HandleDisconnect_AlwaysNotifies(m, tenv) ==
    LET m1 == [m EXCEPT !.connected = FALSE, !.connecting = FALSE]
        m2 == IF m1.on_disconnected_cb
              THEN Callback(m1, <<"on_disconnected">>) ELSE m1
        m3 == [m2 EXCEPT !.subs =
                 [i \in Slots |->
                    IF m2.subs[i].active
                    THEN [m2.subs[i] EXCEPT !.pending_subscribe = TRUE]
                    ELSE m2.subs[i]]]
    IN IF m2.halted # "no" THEN m2
       ELSE IF ~m3.disconnect_requested
       THEN ScheduleReconnect(m3, tenv)
       ELSE IF m3.client_handle THEN CleanupMqttClient(m3) ELSE m3

\* void HandleDisconnect()
HandleDisconnect(m, tenv) ==
    LET was_connected == m.connected
        m1 == [m EXCEPT !.connected = FALSE, !.connecting = FALSE]
        m2 == IF was_connected /\ m1.on_disconnected_cb
              THEN Callback(m1, <<"on_disconnected">>) ELSE m1
        m3 == [m2 EXCEPT !.subs =
                 [i \in Slots |->
                    IF m2.subs[i].active
                    THEN [m2.subs[i] EXCEPT !.pending_subscribe = TRUE]
                    ELSE m2.subs[i]]]
    IN IF m2.halted # "no" THEN m2
       ELSE IF ~m3.disconnect_requested
       THEN ScheduleReconnect(m3, tenv)
       ELSE IF m3.client_handle THEN CleanupMqttClient(m3) ELSE m3

\* strncmp(a, b, n) == 0 for NUL-terminated strings
StrNEq(a, b, n) ==
    LET pa == SubSeq(a, 1, IF Len(a) < n THEN Len(a) ELSE n)
        pb == SubSeq(b, 1, IF Len(b) < n THEN Len(b) ELSE n)
    IN pa = pb

\* strncpy(dst, src, kMaxTopicLen - 1); dst[kMaxTopicLen - 1] = '\0'
CopyTopic(src) ==
    SubSeq(src, 1, IF Len(src) < kMaxTopicLen - 1 THEN Len(src)
                   ELSE kMaxTopicLen - 1)

(***************************************************************************)
(* Inbound messages.                                                       *)
(***************************************************************************)
\* snprintf(buf, sizeof(buf), ...) into a char[kMaxTopicLen]: what the
\* buffer holds
Snprintf(text) == CopyTopic(text)

ShadowPrefix(thing_name) ==
    Snprintf("$aws/things/" \o thing_name \o "/shadow/")

JobsPrefix(thing_name) == Snprintf("$aws/things/" \o thing_name \o "/jobs/")

JobsNotifyNext(thing_name) ==
    Snprintf("$aws/things/" \o thing_name \o "/jobs/notify-next")

\* event->data of a message the transport delivers without payload bytes
NullData == "nullptr"

\* a std::function written by one thread while another thread used it
TornCb == "torn"

\* strcmp(tail, text) == 0, tail being the last Len(text) characters of
\* event->topic.  The topic is topic_len bytes that no NUL ends: strcmp
\* reads on into the byte behind it, and the strings are equal only if
\* that byte happens to be 0.
StrCmpTail(s, text, terminated) ==
    /\ Len(s) >= Len(text)
    /\ SubSeq(s, Len(s) - Len(text) + 1, Len(s)) = text
    /\ terminated

\* a structured or generic handler is called; calling a torn std::function
\* takes the firmware down
InvokeHandler(m, cb, c) ==
    IF cb = TornCb THEN [m EXCEPT !.halted = "abort"] ELSE Callback(m, c)

\* the shadow branch of HandleData
HandleShadowData(m, topic, data) ==
    LET topic_len == Len(topic)
        shadow_prefix_buf == ShadowPrefix(m.config.thing_name)
        shadow_prefix_len == Len(shadow_prefix_buf)
    IN IF ~(/\ topic_len > shadow_prefix_len
            /\ StrNEq(topic, shadow_prefix_buf, shadow_prefix_len))
       THEN m
       ELSE
         LET suffix == SubSeq(topic, shadow_prefix_len + 1, topic_len)
             suffix_len == topic_len - shadow_prefix_len
         IN IF \/ StrNEq(suffix, "update/", 7) /\ suffix_len > 7
               \/ StrNEq(suffix, "delta", 5) /\ suffix_len = 5
            THEN IF m.shadow_update_cb # NullCb
                 THEN LET type == IF SubSeq(suffix, 1, 1) = "d" THEN "delta"
                                  ELSE SubSeq(suffix, 8, suffix_len)
                      IN InvokeHandler(m, m.shadow_update_cb,
                                       <<"shadow_update", m.shadow_update_cb,
                                         type, data>>)
                 ELSE m
            ELSE IF StrNEq(suffix, "get/", 4) /\ suffix_len > 4
            THEN IF m.shadow_get_cb # NullCb
                 THEN InvokeHandler(m, m.shadow_get_cb,
                                    <<"shadow_get", m.shadow_get_cb,
                                      SubSeq(suffix, 5, suffix_len), data>>)
                 ELSE m
            ELSE m

\* the jobs branch of HandleData, reached when the shadow branch called no
\* handler
HandleJobsData(m, topic, data, terminated) ==
    LET topic_len == Len(topic)
        jobs_notify_buf == JobsNotifyNext(m.config.thing_name)
        jobs_update_prefix_buf == JobsPrefix(m.config.thing_name)
        jobs_update_prefix_len == Len(jobs_update_prefix_buf)
    IN IF topic = jobs_notify_buf
       THEN IF m.job_notify_cb # NullCb
            THEN InvokeHandler(m, m.job_notify_cb,
                               <<"job_notify", m.job_notify_cb,
                                 "unknown_job_id", "QUEUED", data>>)
            ELSE m
       ELSE IF /\ topic_len > jobs_update_prefix_len
               /\ StrNEq(topic, jobs_update_prefix_buf, jobs_update_prefix_len)
       THEN
         LET job_suffix == SubSeq(topic, jobs_update_prefix_len + 1, topic_len)
             job_suffix_len == topic_len - jobs_update_prefix_len
             update_accepted_str == "/update/accepted"
             update_rejected_str == "/update/rejected"
             accepted_len == Len(update_accepted_str)
             rejected_len == Len(update_rejected_str)
             accepted == /\ job_suffix_len > accepted_len
                         /\ StrCmpTail(job_suffix, update_accepted_str,
                                       terminated)
             rejected == /\ ~accepted
                         /\ job_suffix_len > rejected_len
                         /\ StrCmpTail(job_suffix, update_rejected_str,
                                       terminated)
             job_id_str ==
                 IF accepted
                 THEN SubSeq(job_suffix, 1, job_suffix_len - accepted_len)
                 ELSE IF rejected
                 THEN SubSeq(job_suffix, 1, job_suffix_len - rejected_len)
                 ELSE ""
             status_str == IF accepted THEN "ACCEPTED"
                           ELSE IF rejected THEN "REJECTED" ELSE ""
         IN IF job_id_str # "" /\ m.job_notify_cb # NullCb
            THEN InvokeHandler(m, m.job_notify_cb,
                               <<"job_notify", m.job_notify_cb, job_id_str,
                                 status_str, data>>)
            ELSE m
       ELSE m

\* the loop over subscriptions_ without the comparison of the topic: the
\* first active entry with a handler takes every message
HandleGenericData_IgnoresTopic(m, topic, data) ==
    LET hits == {i \in Slots : /\ m.subs[i].active
                               /\ m.subs[i].callback # NullCb}
    IN IF hits = {} THEN m
       ELSE LET i == CHOOSE k \in hits : \A j \in hits : k <= j
            IN InvokeHandler(m, m.subs[i].callback,
                             <<"message", m.subs[i].callback, topic, data>>)

\* the loop over subscriptions_ of HandleData, reached when no structured
\* handler was called: the first active entry with a handler and this topic
HandleGenericData(m, topic, data) ==
    LET hits == {i \in Slots : /\ m.subs[i].active
                               /\ m.subs[i].callback # NullCb
                               /\ topic = m.subs[i].topic}
    IN IF hits = {} THEN m
       ELSE LET i == CHOOSE k \in hits : \A j \in hits : k <= j
            IN InvokeHandler(m, m.subs[i].callback,
                             <<"message", m.subs[i].callback, topic, data>>)

\* handled, after a branch of HandleData: the branch called a handler
Handled(before, after) ==
    Len(after.cbs) > Len(before.cbs) \/ after.halted # "no"

\* void HandleData(topic, topic_len, data, data_len)
HandleData(m, topic, data, terminated) ==
    IF data = NullData THEN m
    ELSE LET m1 == HandleShadowData(m, topic, data)
             m2 == IF Handled(m, m1) THEN m1
                   ELSE HandleJobsData(m1, topic, data, terminated)
         IN IF Handled(m, m2) THEN m2 ELSE HandleGenericData(m2, topic, data)

\* the switch of HandleMqttEvent, reached when no disconnect was requested
DispatchEvent(m, ev, tenv, okSlots) ==
    CASE ev.id = "CONNECTED" -> HandleConnect(m, okSlots)
      [] ev.id = "DISCONNECTED" -> HandleDisconnect(m, tenv)
      [] ev.id = "ERROR" ->
           IF m.connecting THEN [m EXCEPT !.connecting = FALSE]
           ELSE IF ~m.connected THEN HandleDisconnect(m, tenv)
           ELSE m
      [] ev.id = "DATA" -> HandleData(m, ev.topic, ev.data, ev.terminated)
      [] ev.id = "DELETED" ->
           [m EXCEPT !.client_handle = FALSE, !.connected = FALSE,
                     !.connecting = FALSE]
      [] OTHER -> m

\* a slot search that compares the filter with the first slot only
ExistingSlot_FirstSlotOnly(subs, topic_filter) ==
    IF subs[1].active /\ subs[1].topic = topic_filter THEN 1 ELSE 0

\* the slot search of Subscribe: the active slot holding the filter, or 0
ExistingSlot(subs, topic_filter) ==
    LET hits == {i \in Slots : /\ subs[i].active
                               /\ StrNEq(subs[i].topic, topic_filter,
                                         kMaxTopicLen)}
    IN IF hits = {} THEN 0
       ELSE CHOOSE i \in hits : \A j \in hits : i <= j

\* a slot search that falls back on the last slot when none is inactive
AvailableSlot_Evicts(subs, topic_filter) ==
    LET free == {i \in Slots : ~subs[i].active}
    IN IF free = {} THEN kMaxSubs
       ELSE CHOOSE i \in free : \A j \in free : i <= j

\* the slot search of Subscribe: the first inactive slot, or 0.  The loop
\* stops at the first match, so slots behind it are not looked at.
AvailableSlot(subs, topic_filter) ==
    LET ex == ExistingSlot(subs, topic_filter)
        free == {i \in Slots : ~subs[i].active /\ (ex = 0 \/ i < ex)}
    IN IF free = {} THEN 0
       ELSE CHOOSE i \in free : \A j \in free : i <= j

\* Subscribe that restores the table when the transport subscribe fails
SubscribeAt_RollsBack(m, topic_filter, qos, callback, ok, target_slot, new_subscription) ==
    IF target_slot = 0 THEN Result(m, FALSE)
    ELSE
      LET m1 == [m EXCEPT !.subs[target_slot].qos = qos,
                          !.subs[target_slot].callback = callback,
                          !.subs[target_slot].pending_subscribe = TRUE]
          m2 == IF new_subscription
                THEN [m1 EXCEPT !.subs[target_slot].topic =
                                    CopyTopic(topic_filter),
                                !.subs[target_slot].active = TRUE,
                                !.count = @ + 1]
                ELSE m1
          r == SubscribeInternal(m2, m2.subs[target_slot].topic,
                                 m2.subs[target_slot].qos, ok)
      IN IF m2.connected /\ m2.client_handle
         THEN IF r.ret
              THEN Result([r.m EXCEPT
                             !.subs[target_slot].pending_subscribe = FALSE],
                          TRUE)
              ELSE Result([r.m EXCEPT !.subs = m.subs, !.count = m.count],
                          FALSE)
         ELSE Result(m2, TRUE)

\* Subscribe, from the slot it settled on: the slot is written and, when
\* connected, the transport subscribe is sent
SubscribeAt(m, topic_filter, qos, callback, ok, target_slot, new_subscription) ==
    IF target_slot = 0 THEN Result(m, FALSE)
    ELSE
      LET m1 == [m EXCEPT !.subs[target_slot].qos = qos,
                          !.subs[target_slot].callback = callback,
                          !.subs[target_slot].pending_subscribe = TRUE]
          m2 == IF new_subscription
                THEN [m1 EXCEPT !.subs[target_slot].topic =
                                    CopyTopic(topic_filter),
                                !.subs[target_slot].active = TRUE,
                                !.count = @ + 1]
                ELSE m1
          r == SubscribeInternal(m2, m2.subs[target_slot].topic,
                                 m2.subs[target_slot].qos, ok)
      IN IF m2.connected /\ m2.client_handle
         THEN IF r.ret
              THEN Result([r.m EXCEPT
                             !.subs[target_slot].pending_subscribe = FALSE],
                          TRUE)
              ELSE Result(r.m, FALSE)
         ELSE Result(m2, TRUE)

\* Subscribe that takes the available slot also when the filter is registered
SubscribeFound_IgnoresExisting(m, topic_filter, qos, callback, ok, existing_slot, available_slot) ==
    SubscribeAt(m, topic_filter, qos, callback, ok, available_slot,
                available_slot # 0)

\* Subscribe, after the slot search: an existing slot is reused, otherwise
\* the available one is taken
SubscribeFound(m, topic_filter, qos, callback, ok, existing_slot, available_slot) ==
    SubscribeAt(m, topic_filter, qos, callback, ok,
                IF existing_slot # 0 THEN existing_slot ELSE available_slot,
                existing_slot = 0 /\ available_slot # 0)

\* bool Subscribe(topic_filter, qos, callback)
SubscribeOp(m, topic_filter, qos, callback, ok) ==
    IF ~m.initialized THEN Result(m, FALSE)
    ELSE IF Len(topic_filter) >= kMaxTopicLen THEN Result(m, FALSE)
    ELSE SubscribeFound(m, topic_filter, qos, callback, ok,
                        ExistingSlot(m.subs, topic_filter),
                        AvailableSlot(m.subs, topic_filter))

\* Unsubscribe() that deactivates the slot and leaves the count alone
UnsubscribeOp_KeepsCount(m, topic_filter, ok) ==
    IF ~m.initialized THEN Result(m, FALSE)
    ELSE
      LET found_slot == ExistingSlot(m.subs, topic_filter)
      IN IF found_slot = 0 THEN Result(m, FALSE)
         ELSE
           LET topic_copy == CopyTopic(m.subs[found_slot].topic)
               m1 == [m EXCEPT !.subs[found_slot].active = FALSE,
                               !.subs[found_slot].pending_subscribe = FALSE,
                               !.subs[found_slot].callback = NullCb,
                               !.subs[found_slot].topic = ""]
           IN IF m1.connected /\ m1.client_handle
              THEN LET r == UnsubscribeInternal(m1, topic_copy, ok)
                   IN Result(r.m, r.ret)
              ELSE Result(m1, TRUE)

\* Unsubscribe() that sends first and removes the entry only when the
\* transport accepted the unsubscribe
UnsubscribeOp_SendsFirst(m, topic_filter, ok) ==
    IF ~m.initialized THEN Result(m, FALSE)
    ELSE
      LET found_slot == ExistingSlot(m.subs, topic_filter)
      IN IF found_slot = 0 THEN Result(m, FALSE)
         ELSE
           LET topic_copy == CopyTopic(m.subs[found_slot].topic)
               r == UnsubscribeInternal(m, topic_copy, ok)
               sent == (m.connected /\ m.client_handle) => r.ret
               m1 == IF m.connected /\ m.client_handle THEN r.m ELSE m
           IN IF sent
              THEN Result([m1 EXCEPT !.subs[found_slot] = EmptySub,
                                     !.count = @ - 1], TRUE)
              ELSE Result(m1, FALSE)

\* bool Unsubscribe(topic_filter)
UnsubscribeOp(m, topic_filter, ok) ==
    IF ~m.initialized THEN Result(m, FALSE)
    ELSE
      LET found_slot == ExistingSlot(m.subs, topic_filter)
      IN IF found_slot = 0 THEN Result(m, FALSE)
         ELSE
           LET topic_copy == CopyTopic(m.subs[found_slot].topic)
               m1 == [m EXCEPT !.subs[found_slot].active = FALSE,
                               !.subs[found_slot].pending_subscribe = FALSE,
                               !.subs[found_slot].callback = NullCb,
                               !.subs[found_slot].topic = "",
                               !.count = @ - 1]
           IN IF m1.connected /\ m1.client_handle
              THEN LET r == UnsubscribeInternal(m1, topic_copy, ok)
                   IN Result(r.m, r.ret)
              ELSE Result(m1, TRUE)

(***************************************************************************)
(* Public operations.  Each action is the operation applied to inputs      *)
(* drawn from the sets it is given.                                        *)
(***************************************************************************)

\* the outcome of the transport calls matters only to a Connect() that
\* passes its checks
ConnectInputs(E) ==
    IF initialized /\ ~connected /\ ~connecting /\ ~disconnect_requested
    THEN E ELSE {ConnectOk}

\* the outcome of a transport subscribe/unsubscribe matters only when the
\* client is connected
SendInputs == IF connected /\ client_handle THEN BOOLEAN ELSE {TRUE}

\* bool Initialize(const MqttConfig&)
Initialize(C) ==
    \E cfg \in C :
      LET m == Lock(Pack)
      IN /\ UNCHANGED <<tick_pending, event_pending>>
         /\ IF m.initialized
            THEN Commit(m, "Initialize", <<cfg>>, TRUE)
            ELSE IF \/ cfg.aws_endpoint = "" \/ cfg.client_id = ""
                    \/ cfg.thing_name = ""
                    \/ ~cfg.root_ca_pem \/ ~cfg.device_cert_pem
                    \/ ~cfg.private_key_pem
                 THEN Commit(m, "Initialize", <<cfg>>, FALSE)
                 ELSE Commit([m EXCEPT !.config = cfg,
                                       !.initialized = TRUE,
                                       !.disconnect_requested = FALSE],
                             "Initialize", <<cfg>>, TRUE)

\* bool Connect(), called by the application
ConnectApp(E) ==
    \E env \in ConnectInputs(E) :
      LET r == Connect(Lock(Pack), env)
      IN /\ r.m.live_handles <= MaxLiveHandles
         /\ Commit(r.m, "Connect", <<>>, r.ret)
         /\ UNCHANGED <<tick_pending, event_pending>>

\* bool IsConnected() const: the atomic flag, read without mutex_
IsConnected == connected

\* Disconnect() that reports the end of an established session to the user
Disconnect_NotifiesUser ==
    LET m1 == [Lock(Pack) EXCEPT !.disconnect_requested = TRUE]
        m2 == IF m1.connected /\ m1.on_disconnected_cb
              THEN Callback(m1, <<"on_disconnected">>) ELSE m1
    IN /\ Commit(CleanupMqttClient(StopReconnectTimer(m2)), "Disconnect",
                 <<>>, TRUE)
       /\ UNCHANGED <<tick_pending, event_pending>>

\* Disconnect() that leaves the reconnect timer running
Disconnect_KeepsTimer ==
    LET m1 == [Lock(Pack) EXCEPT !.disconnect_requested = TRUE]
    IN /\ Commit(CleanupMqttClient(m1), "Disconnect", <<>>, TRUE)
       /\ UNCHANGED <<tick_pending, event_pending>>

\* void Disconnect()
Disconnect ==
    LET m1 == [Lock(Pack) EXCEPT !.disconnect_requested = TRUE]
    IN /\ Commit(CleanupMqttClient(StopReconnectTimer(m1)), "Disconnect",
                 <<>>, TRUE)
       /\ UNCHANGED <<tick_pending, event_pending>>

\* bool Subscribe(topic_filter, qos, callback)
Subscribe(F, A) ==
    \E f \in F, a \in A, ok \in SendInputs :
      LET r == SubscribeOp(Lock(Pack), f, a[1], a[2], ok)
      IN /\ Commit(r.m, "Subscribe", <<f, a[1], a[2]>>, r.ret)
         /\ UNCHANGED <<tick_pending, event_pending>>

\* bool Unsubscribe(topic_filter)
Unsubscribe(F) ==
    \E f \in F, ok \in SendInputs :
      LET r == UnsubscribeOp(Lock(Pack), f, ok)
      IN /\ Commit(r.m, "Unsubscribe", <<f>>, r.ret)
         /\ UNCHANGED <<tick_pending, event_pending>>

\* Publish() that hands the message to the transport whatever the state
PublishOp_QueuesWhenOffline(m, topic, payload, len, qos, ok) ==
    IF Len(topic) >= kMaxTopicLen THEN Result(m, FALSE)
    ELSE IF payload = NullData /\ len > 0 THEN Result(m, FALSE)
    ELSE Result(Call(m, <<"Publish", topic, payload, len, qos, ok>>), ok)

\* bool Publish(topic, payload, len, qos, retain), which the two other
\* overloads forward to; ok is esp_mqtt_client_publish returning a message
\* id rather than -1
PublishOp(m, topic, payload, len, qos, ok) ==
    IF ~m.connected \/ ~m.client_handle THEN Result(m, FALSE)
    ELSE IF Len(topic) >= kMaxTopicLen THEN Result(m, FALSE)
    ELSE IF payload = NullData /\ len > 0 THEN Result(m, FALSE)
    ELSE Result(Call(m, <<"Publish", topic, payload, len, qos, ok>>), ok)

\* bool Publish(topic, payload, len, qos, retain)
Publish(T, P, Q) ==
    \E topic \in T, p \in P, qos \in Q, ok \in SendInputs :
      \E r \in {PublishOp(Lock(Pack), topic, p[1], p[2], qos, ok)} :
        /\ Commit(r.m, "Publish", <<topic, p[1], p[2], qos>>, r.ret)
        /\ UNCHANGED <<tick_pending, event_pending>>

\* void SetOnConnectedCallback(cb)
SetOnConnectedCallback ==
    \E cb \in BOOLEAN :
      /\ Commit([Lock(Pack) EXCEPT !.on_connected_cb = cb],
                "SetOnConnectedCallback", <<cb>>, TRUE)
      /\ UNCHANGED <<tick_pending, event_pending>>

\* void SetOnDisconnectedCallback(cb)
SetOnDisconnectedCallback ==
    \E cb \in BOOLEAN :
      /\ Commit([Lock(Pack) EXCEPT !.on_disconnected_cb = cb],
                "SetOnDisconnectedCallback", <<cb>>, TRUE)
      /\ UNCHANGED <<tick_pending, event_pending>>

\* GetShadowTopic / GetJobsTopic: the text snprintf is asked to write
ShadowTopic(thing_name, operation) ==
    "$aws/things/" \o thing_name \o "/shadow/" \o operation

JobsTopic(thing_name, operation, job_id) ==
    IF job_id = "" \/ job_id = "+"
    THEN "$aws/things/" \o thing_name \o "/jobs/" \o operation
    ELSE "$aws/things/" \o thing_name \o "/jobs/" \o job_id \o "/"
           \o operation

\* one line of a Subscribe... helper: if the topic text fits topic_buf,
\* success &= Subscribe(topic_buf, 1, nullptr), else success = false.
\* Subscribe takes mutex_ and releases it when it returns.
SubscribeTopic(m, text, ok) ==
    IF Len(text) > 0 /\ Len(text) < kMaxTopicLen
    THEN LET r == SubscribeOp(Lock(m), Snprintf(text), 1, NullCb, ok)
         IN Result([r.m EXCEPT !.mutex_held = FALSE], r.ret)
    ELSE Result(m, FALSE)

\* a handler reference is written without mutex_; if the transport task is
\* meanwhile in HandleData with a message of this handler (kind), it uses
\* the same std::function: the two accesses race and the std::function may
\* be left torn.  m holds the reference as written.
RacyStore(m, kind, callback) ==
    LET e == event_pending
        h == HandleData([m EXCEPT !.cbs = <<>>, !.cb_locks = <<>>],
                        e.topic, e.data, e.terminated)
    IN IF /\ e.id = "DATA"
          /\ callback # NullCb
          /\ \E k \in 1..Len(h.cbs) : h.cbs[k][1] = kind
       THEN {callback, TornCb} ELSE {callback}

\* bool SubscribeToShadowUpdates(callback)
SubscribeToShadowUpdates(H) ==
    \E callback \in H, ok \in SendInputs :
      \E stored \in RacyStore([Pack EXCEPT !.shadow_update_cb = callback],
                                "shadow_update", callback) :
        LET m == [Touch(Pack, "shadow_update_cb_")
                    EXCEPT !.shadow_update_cb = stored]
            T == m.config.thing_name
        IN \E r1 \in {SubscribeTopic(m, ShadowTopic(T, "update/accepted"),
                                      ok)} :
           \E r2 \in {SubscribeTopic(r1.m, ShadowTopic(T, "update/rejected"),
                                      ok)} :
           \E r3 \in {SubscribeTopic(r2.m, ShadowTopic(T, "update/delta"),
                                      ok)} :
             /\ Commit(r3.m, "SubscribeToShadowUpdates", <<callback>>,
                       r1.ret /\ r2.ret /\ r3.ret)
             /\ UNCHANGED <<tick_pending, event_pending>>

\* bool SubscribeToShadowGetResponses(callback)
SubscribeToShadowGetResponses(H) ==
    \E callback \in H, ok \in SendInputs :
      \E stored \in RacyStore([Pack EXCEPT !.shadow_get_cb = callback],
                                "shadow_get", callback) :
        LET m == [Touch(Pack, "shadow_get_cb_")
                    EXCEPT !.shadow_get_cb = stored]
            T == m.config.thing_name
        IN \E r1 \in {SubscribeTopic(m, ShadowTopic(T, "get/accepted"),
                                      ok)} :
           \E r2 \in {SubscribeTopic(r1.m, ShadowTopic(T, "get/rejected"),
                                      ok)} :
             /\ Commit(r2.m, "SubscribeToShadowGetResponses", <<callback>>,
                       r1.ret /\ r2.ret)
             /\ UNCHANGED <<tick_pending, event_pending>>

\* bool SubscribeToJobs(callback)
SubscribeToJobs(H) ==
    \E callback \in H, ok \in SendInputs :
      \E stored \in RacyStore([Pack EXCEPT !.job_notify_cb = callback],
                                "job_notify", callback) :
        LET m == [Touch(Pack, "job_notify_cb_")
                    EXCEPT !.job_notify_cb = stored]
            T == m.config.thing_name
        IN \E r1 \in {SubscribeTopic(m, JobsTopic(T, "notify-next", ""),
                                      ok)} :
           \E r2 \in {SubscribeTopic(r1.m,
                                      JobsTopic(T, "update/accepted", "+"),
                                      ok)} :
           \E r3 \in {SubscribeTopic(r2.m,
                                      JobsTopic(T, "update/rejected", "+"),
                                      ok)} :
             /\ Commit(r3.m, "SubscribeToJobs", <<callback>>,
                       r1.ret /\ r2.ret /\ r3.ret)
             /\ UNCHANGED <<tick_pending, event_pending>>

(***************************************************************************)
(* The transport task and the timer service task.                          *)
(***************************************************************************)

\* the transport dispatches its next event; the handler then waits for mutex_
TransportEmit(Ids) ==
    /\ halted = "no"
    /\ event_pending = NoEvent
    /\ \E id \in Ids :
         /\ CASE id = "BEFORE_CONNECT" -> session = "starting" /\ session' = session
              [] id = "CONNECTED" -> session = "starting" /\ session' = "up"
              [] id = "ERROR" -> session \in {"starting", "up"} /\ session' = "failing"
              [] id = "DISCONNECTED" ->
                   session \in {"starting", "up", "failing"} /\ session' = "down"
              [] id = "DELETED" -> session # "none" /\ session' = session
              [] OTHER -> session = "up" /\ session' = session
         /\ event_pending' = [id |-> id]
    /\ UNCHANGED <<initialized, connected, connecting, disconnect_requested,
                   client_handle, config, current_reconnect_delay_ms,
                   reconnect_timer_handle, subscriptions,
                   active_subscription_count, on_connected_cb,
                   on_disconnected_cb, shadow_update_cb, shadow_get_cb,
                   job_notify_cb, halted, armed_timers, tick_pending,
                   live_handles, last, impl>>

\* the timer calls are reached only through ScheduleReconnect
TimerInputs(TE) ==
    IF /\ ~disconnect_requested
       /\ \/ event_pending.id = "DISCONNECTED"
          \/ event_pending.id = "ERROR" /\ ~connecting /\ ~connected
    THEN TE ELSE {TimerOk}

\* the transport subscribes are made only by ResubscribePending
ResubscribeInputs ==
    IF ~disconnect_requested /\ event_pending.id = "CONNECTED"
    THEN SUBSET {i \in Slots : subscriptions[i].active
                               /\ subscriptions[i].pending_subscribe}
    ELSE {{}}

\* the event as the handler receives it
EventArgs(ev) ==
    IF ev.id = "DATA" THEN <<ev.id, ev.topic, ev.data, ev.terminated>>
    ELSE <<ev.id>>

\* what the invoked callback does matters only to an event that invokes one
CallbackInputs(CB, tenv, okSlots) ==
    IF /\ ~disconnect_requested
       /\ DispatchEvent(Lock(Pack), event_pending, tenv, okSlots).cbs # <<>>
    THEN CB ELSE {"returns"}

RelockInputs(body) ==
    IF body = "calls_client" THEN RelockOutcomes ELSE {"deadlock"}

\* HandleMqttEvent() that dispatches the event whatever disconnect_requested_
\* holds
HandleMqttEventWith_NoDisconnectCheck(TE, CB) ==
    /\ event_pending # NoEvent
    /\ event_pending' = NoEvent
    /\ UNCHANGED tick_pending
    /\ \E tenv \in TimerInputs(TE), okSlots \in ResubscribeInputs :
         \E body \in CallbackInputs(CB, tenv, okSlots) :
           \E relock \in RelockInputs(body) :
             LET m == [Lock(Pack) EXCEPT !.cb_body = body, !.relock = relock]
             IN Commit(DispatchEvent(m, event_pending, tenv, okSlots),
                       "HandleMqttEvent", EventArgs(event_pending), TRUE)

\* void HandleMqttEvent(event_data), with user callbacks that behave as CB
HandleMqttEventWith(TE, CB) ==
    /\ event_pending # NoEvent
    /\ event_pending' = NoEvent
    /\ UNCHANGED tick_pending
    /\ \E tenv \in TimerInputs(TE), okSlots \in ResubscribeInputs :
         \E body \in CallbackInputs(CB, tenv, okSlots) :
           \E relock \in RelockInputs(body) :
             LET m == [Lock(Pack) EXCEPT !.cb_body = body, !.relock = relock]
             IN IF m.disconnect_requested
                THEN Commit(m, "HandleMqttEvent", EventArgs(event_pending),
                            TRUE)
                ELSE Commit(DispatchEvent(m, event_pending, tenv, okSlots),
                            "HandleMqttEvent", EventArgs(event_pending), TRUE)

\* void HandleMqttEvent(event_data), with user callbacks that return
HandleMqttEvent(TE) == HandleMqttEventWith(TE, {"returns"})

\* the byte behind event->topic is read only by the strcmp calls of the jobs
\* branch
TerminatorInputs(topic) ==
    IF StrNEq(topic, JobsPrefix(config.thing_name),
              Len(JobsPrefix(config.thing_name)))
    THEN BOOLEAN ELSE {FALSE}

\* the transport delivers a message of the session to the handler
TransportEmitData(Topics, Payloads) ==
    /\ halted = "no"
    /\ event_pending = NoEvent
    /\ session = "up"
    /\ \E topic \in Topics, data \in Payloads :
       \E terminated \in TerminatorInputs(topic) :
         event_pending' = [id |-> "DATA", topic |-> topic, data |-> data,
                           terminated |-> terminated]
    /\ UNCHANGED <<initialized, connected, connecting, disconnect_requested,
                   client_handle, config, current_reconnect_delay_ms,
                   reconnect_timer_handle, subscriptions,
                   active_subscription_count, on_connected_cb,
                   on_disconnected_cb, shadow_update_cb, shadow_get_cb,
                   job_notify_cb, halted, armed_timers, tick_pending,
                   session, live_handles, last, impl>>

\* the one-shot reconnect timer expires; its callback then waits for mutex_
TimerExpire ==
    /\ halted = "no"
    /\ armed_timers > 0
    /\ ~tick_pending
    /\ armed_timers' = armed_timers - 1
    /\ tick_pending' = TRUE
    /\ UNCHANGED <<initialized, connected, connecting, disconnect_requested,
                   client_handle, config, current_reconnect_delay_ms,
                   reconnect_timer_handle, subscriptions,
                   active_subscription_count, on_connected_cb,
                   on_disconnected_cb, shadow_update_cb, shadow_get_cb,
                   job_notify_cb, halted, session, live_handles,
                   event_pending, last, impl>>

\* static void ReconnectTimerCallbackStatic(timer_arg)
ReconnectTimerCallbackStatic(E) ==
    /\ tick_pending
    /\ tick_pending' = FALSE
    /\ UNCHANGED event_pending
    /\ \E env \in ConnectInputs(E) :
         LET r == Connect(Lock(Pack), env)
         IN /\ r.m.live_handles <= MaxLiveHandles
            /\ Commit(r.m, "ReconnectTimerCallbackStatic", <<>>, r.ret)

(***************************************************************************)
(* AwsIotClientImpl (src/test.cc): application threads call the public     *)
(* methods, the yield task runs the SDK, which reports a lost connection   *)
(* through aws_disconnect_callback.  mutex_ is held across steps only by a *)
(* thread that blocked while holding it.                                   *)
(***************************************************************************)
AppThreads == {"A", "B"}
YieldTask == "Y"
ImplThreads == AppThreads \cup {YieldTask}

CertNames == {"Root CA", "Client Cert", "Client Key"}
ImplFilters == {"app/1"}

\* results of the SDK calls: success, one of the codes that
\* handle_potential_disconnect_error takes for a lost connection, and one
\* it does not
ImplRcs ==
    {"SUCCESS", "NETWORK_DISCONNECTED_ERROR", "MQTT_REQUEST_TIMEOUT_ERROR"}

\* the switch of handle_potential_disconnect_error
DisconnectIndicated(rc) ==
    rc \in {"NETWORK_DISCONNECTED_ERROR", "MQTT_CONNECTION_ERROR",
            "NETWORK_SSL_READ_ERROR", "NETWORK_SSL_WRITE_ERROR",
            "NETWORK_SSL_CONNECT_ERROR"}

\* outcomes of aws_iot_mqtt_init, aws_iot_mqtt_connect and xTaskCreate
ImplConnectOk == [init_ok |-> TRUE, connect_ok |-> TRUE, task_ok |-> TRUE]
ImplConnectEnvs ==
    { ImplConnectOk,
      [ImplConnectOk EXCEPT !.init_ok = FALSE],
      [ImplConnectOk EXCEPT !.connect_ok = FALSE],
      [ImplConnectOk EXCEPT !.task_ok = FALSE] }

\* successful connect() calls followed in one behaviour
MaxConnects == 2

NoCall == [op |-> "none", rc |-> "none"]

\* no subscribe has reached the SDK yet
NoSubscribe == [filter |-> "none", had |-> FALSE, rc |-> "none"]

\* the object after AwsIotClientImpl(), with every thread outside the client
ImplInit ==
    [config_loaded |-> FALSE, auto_reconnect |-> FALSE, certs |-> {},
     client_initialized |-> FALSE, is_connected |-> FALSE,
     yield_task |-> FALSE, on_disconnected_cb |-> FALSE,
     handlers |-> {}, mutex |-> "free",
     net |-> "none", sdk_pending |-> FALSE,
     pc |-> [t \in ImplThreads |-> "idle"],
     cur |-> [t \in ImplThreads |-> NoCall],
     saw |-> [t \in ImplThreads |-> "none"],
     connects |-> 0, transitions |-> 0, notified |-> 0, fired |-> 0,
     sub |-> NoSubscribe,
     done |-> [thread |-> "none", op |-> "AwsIotClientImpl", rc |-> "none",
               ret |-> "none"]]

clientVars ==
    <<initialized, connected, connecting, disconnect_requested, client_handle,
      config, current_reconnect_delay_ms, reconnect_timer_handle,
      subscriptions, active_subscription_count, on_connected_cb,
      on_disconnected_cb, shadow_update_cb, shadow_get_cb, job_notify_cb,
      halted, armed_timers, tick_pending, session, live_handles,
      event_pending, last>>

\* thread t returns ret from op
ImplDone(i, t, op, rc, ret) ==
    [i EXCEPT !.pc[t] = "idle", !.cur[t] = NoCall,
              !.done = [thread |-> t, op |-> op, rc |-> rc, ret |-> ret]]

\* thread t leaves the error path: an application call returns false, the
\* SDK callback returns to aws_iot_mqtt_yield
ImplFinish(i, t) ==
    IF t \in AppThreads
    THEN ImplDone(i, t, i.cur[t].op, i.cur[t].rc, "false")
    ELSE [i EXCEPT !.pc[t] = "idle", !.cur[t] = NoCall]

ImplCommit(i) ==
    /\ impl' = i
    /\ UNCHANGED clientVars

\* bool load_configuration(config), with a valid configuration
load_configuration(T) ==
    \E t \in T, auto \in BOOLEAN :
      /\ impl.pc[t] = "idle"
      /\ impl.mutex = "free"
      /\ IF impl.is_connected \/ impl.client_initialized
         THEN ImplCommit(ImplDone(impl, t, "load_configuration", "none",
                                  "false"))
         ELSE ImplCommit(ImplDone([impl EXCEPT !.config_loaded = TRUE,
                                               !.auto_reconnect = auto],
                                  t, "load_configuration", "none", "true"))

\* bool set_certificate_internal(...), behind set_root_ca, set_client_cert
\* and set_client_key, with PEM data that fits the buffer
set_certificate_internal(T, Names) ==
    \E t \in T, name \in Names :
      /\ impl.pc[t] = "idle"
      /\ impl.mutex = "free"
      /\ IF impl.is_connected \/ impl.client_initialized
         THEN ImplCommit(ImplDone(impl, t, "set_certificate_internal",
                                  "none", "false"))
         ELSE ImplCommit(ImplDone([impl EXCEPT !.certs = @ \cup {name}],
                                  t, "set_certificate_internal", "none",
                                  "true"))

\* void set_on_disconnected_callback(handler)
set_on_disconnected_callback(T) ==
    \E t \in T, cb \in BOOLEAN :
      /\ impl.pc[t] = "idle"
      /\ impl.mutex = "free"
      /\ ImplCommit(ImplDone([impl EXCEPT !.on_disconnected_cb = cb], t,
                             "set_on_disconnected_callback", "none", "none"))

\* connect() once the SDK client is connected and the yield task runs:
\* trigger_connected_callback() locks mutex_, which connect() itself holds.
\* The thread blocks for good with the mutex, or lock() throws and the
\* exception leaves connect(), releasing the mutex.
ConnectedRelock(i, t, relock) ==
    IF relock = "deadlock"
    THEN [i EXCEPT !.mutex = t, !.pc[t] = "stuck",
                   !.cur[t] = [op |-> "connect", rc |-> "SUCCESS"]]
    ELSE ImplDone(i, t, "connect", "SUCCESS", "exception")

\* connect() that frees the SDK client after every failed connect step
ConnectLocked_AlwaysFrees(i, t, env, relock) ==
    IF i.is_connected THEN ImplDone(i, t, "connect", "none", "true")
    ELSE IF i.client_initialized
    THEN ImplDone(i, t, "connect", "none", "false")
    ELSE IF ~env.init_ok
    THEN ImplDone(i, t, "connect", "init", "false")
    ELSE IF ~env.connect_ok
    THEN ImplDone([i EXCEPT !.client_initialized = FALSE], t,
                  "connect", "connect", "false")
    ELSE IF ~i.yield_task /\ ~env.task_ok
    THEN ImplDone(i, t, "connect", "task", "false")
    ELSE ConnectedRelock([i EXCEPT !.client_initialized = TRUE,
                                   !.is_connected = TRUE,
                                   !.yield_task = TRUE,
                                   !.net = "up",
                                   !.sdk_pending = FALSE,
                                   !.saw = [u \in ImplThreads |-> "none"],
                                   !.connects = @ + 1],
                         t, relock)

\* bool connect(), from the lock_guard on
ConnectLocked(i, t, env, relock) ==
    IF i.is_connected THEN ImplDone(i, t, "connect", "none", "true")
    ELSE IF i.client_initialized
    THEN ImplDone(i, t, "connect", "none", "false")
    ELSE IF ~env.init_ok
    THEN ImplDone(i, t, "connect", "init", "false")
    ELSE IF ~env.connect_ok
    THEN ImplDone([i EXCEPT !.client_initialized = i.auto_reconnect], t,
                  "connect", "connect", "false")
    ELSE IF ~i.yield_task /\ ~env.task_ok
    THEN ImplDone(i, t, "connect", "task", "false")
    ELSE ConnectedRelock([i EXCEPT !.client_initialized = TRUE,
                                   !.is_connected = TRUE,
                                   !.yield_task = TRUE,
                                   !.net = "up",
                                   !.sdk_pending = FALSE,
                                   !.saw = [u \in ImplThreads |-> "none"],
                                   !.connects = @ + 1],
                         t, relock)

\* bool connect()
connect(T, E) ==
    \E t \in T :
      /\ impl.pc[t] = "idle"
      /\ impl.connects < MaxConnects
      /\ IF ~impl.config_loaded \/ impl.certs # CertNames
         THEN ImplCommit(ImplDone(impl, t, "connect", "none", "false"))
         ELSE /\ impl.mutex = "free"
              /\ \E env \in E, relock \in RelockOutcomes :
                   ImplCommit(ConnectLocked(impl, t, env, relock))

\* bool disconnect(): disconnect_internal(), the SDK calls succeeding
disconnect_internal(T) ==
    \E t \in T :
      /\ impl.pc[t] = "idle"
      /\ impl.mutex = "free"
      /\ ImplCommit(ImplDone([impl EXCEPT !.yield_task = FALSE,
                                          !.is_connected = FALSE,
                                          !.client_initialized = FALSE,
                                          !.net = "none",
                                          !.sdk_pending = FALSE],
                             t, "disconnect", "SUCCESS", "true"))

\* what follows the SDK call of publish, subscribe and unsubscribe: the call
\* returns, or enters handle_potential_disconnect_error with a code that
\* indicates a lost connection
AfterSdkCall(i, t, op, rc) ==
    IF rc = "SUCCESS" THEN ImplDone(i, t, op, rc, "true")
    ELSE IF DisconnectIndicated(rc)
    THEN [i EXCEPT !.pc[t] = "exchange", !.cur[t] = [op |-> op, rc |-> rc]]
    ELSE ImplDone(i, t, op, rc, "false")

\* the SDK reports a lost connection only when the connection is lost
SdkRcs(Rcs) == {rc \in Rcs : DisconnectIndicated(rc) => impl.net = "dead"}

\* bool publish(topic, payload, qos), with a topic and a valid qos
publish(T, Rcs) ==
    \E t \in T :
      /\ impl.pc[t] = "idle"
      /\ IF ~impl.is_connected
         THEN ImplCommit(ImplDone(impl, t, "publish", "none", "false"))
         ELSE \E rc \in SdkRcs(Rcs) :
                ImplCommit(AfterSdkCall(impl, t, "publish", rc))

\* subscribe() that puts back, when the SDK call fails, the handler the
\* filter had before the call
subscribe_RestoresHandler(T, F, Rcs) ==
    \E t \in T, f \in F :
      /\ impl.pc[t] = "idle"
      /\ IF ~impl.is_connected
         THEN ImplCommit(ImplDone(impl, t, "subscribe", "none", "false"))
         ELSE /\ impl.mutex = "free"
              /\ \E rc \in SdkRcs(Rcs) :
                   ImplCommit(AfterSdkCall(
                     [impl EXCEPT !.handlers = IF rc = "SUCCESS"
                                               THEN @ \cup {f} ELSE @,
                                  !.sub = [filter |-> f,
                                           had |-> f \in impl.handlers,
                                           rc |-> rc]],
                     t, "subscribe", rc))

\* bool subscribe(topic_filter, qos, handler), with a filter, a valid qos
\* and a handler: the handler is stored, the SDK is called with code rc, and
\* a failure erases the entry of the filter; sub notes the filter, whether it
\* had a handler before the call, and rc
subscribe(T, F, Rcs) ==
    \E t \in T, f \in F :
      /\ impl.pc[t] = "idle"
      /\ IF ~impl.is_connected
         THEN ImplCommit(ImplDone(impl, t, "subscribe", "none", "false"))
         ELSE /\ impl.mutex = "free"
              /\ \E rc \in SdkRcs(Rcs) :
                   ImplCommit(AfterSdkCall(
                     [impl EXCEPT !.handlers = IF rc = "SUCCESS"
                                               THEN @ \cup {f} ELSE @ \ {f},
                                  !.sub = [filter |-> f,
                                           had |-> f \in impl.handlers,
                                           rc |-> rc]],
                     t, "subscribe", rc))

\* bool unsubscribe(topic_filter), with a filter
unsubscribe(T, F, Rcs) ==
    \E t \in T, f \in F :
      /\ impl.pc[t] = "idle"
      /\ impl.mutex = "free"
      /\ IF ~impl.is_connected
         THEN ImplCommit(ImplDone([impl EXCEPT !.handlers = @ \ {f}], t,
                                  "unsubscribe", "none", "true"))
         ELSE \E rc \in SdkRcs(Rcs) :
                ImplCommit(AfterSdkCall([impl EXCEPT !.handlers = @ \ {f}],
                                        t, "unsubscribe", rc))

\* is_connected_.exchange(false) and the test of its result, in
\* handle_potential_disconnect_error and in aws_disconnect_callback
ExchangeConnected(i, t) ==
    IF i.is_connected
    THEN [i EXCEPT !.is_connected = FALSE, !.saw[t] = "won",
                   !.transitions = @ + 1, !.pc[t] = "trigger"]
    ELSE ImplFinish([i EXCEPT !.saw[t] = "lost"], t)

\* void handle_potential_disconnect_error(rc, operation), with a code that
\* indicates a lost connection
handle_potential_disconnect_error(T) ==
    \E t \in T :
      /\ impl.pc[t] = "exchange"
      /\ ImplCommit(ExchangeConnected(impl, t))

\* the connection of the SDK client is lost; the yield task will find out
NetworkLost ==
    /\ impl.net = "up"
    /\ ImplCommit([impl EXCEPT !.net = "dead", !.sdk_pending = impl.yield_task])

\* static void aws_disconnect_callback(client, user_data), called by
\* aws_iot_mqtt_yield on the yield task
aws_disconnect_callback ==
    /\ impl.pc[YieldTask] = "idle"
    /\ impl.sdk_pending
    /\ ImplCommit(ExchangeConnected(
         [impl EXCEPT !.sdk_pending = FALSE,
                      !.cur[YieldTask] = [op |-> "aws_disconnect_callback",
                                          rc |-> "none"]],
         YieldTask))

\* void trigger_disconnected_callback(), reached after an exchange that
\* returned true
trigger_disconnected_callback(T) ==
    \E t \in T :
      /\ impl.pc[t] = "trigger"
      /\ impl.mutex = "free"
      /\ ImplCommit(ImplFinish(
           [impl EXCEPT !.notified = @ + 1,
                        !.fired = IF impl.on_disconnected_cb THEN @ + 1 ELSE @],
           t))

Init ==
    /\ initialized = FALSE
    /\ connected = FALSE
    /\ connecting = FALSE
    /\ disconnect_requested = FALSE
    /\ client_handle = FALSE
    /\ config = EmptyConfig
    /\ current_reconnect_delay_ms = 0
    /\ reconnect_timer_handle = FALSE
    /\ subscriptions = [i \in Slots |-> EmptySub]
    /\ active_subscription_count = 0
    /\ on_connected_cb = FALSE
    /\ on_disconnected_cb = FALSE
    /\ shadow_update_cb = NullCb
    /\ shadow_get_cb = NullCb
    /\ job_notify_cb = NullCb
    /\ halted = "no"
    /\ armed_timers = 0
    /\ tick_pending = FALSE
    /\ session = "none"
    /\ live_handles = 0
    /\ event_pending = NoEvent
    /\ impl = ImplInit
    /\ last = [op |-> "AwsIotMqttClient", args |-> <<>>, ret |-> TRUE,
               calls |-> <<>>, cbs |-> <<>>, cb_locks |-> <<>>,
               unlocked |-> <<>>, pre |-> Pre]

(***************************************************************************)
(* Spec: the connection lifecycle under every transport and timer outcome, *)
(* with one application filter.                                            *)
(***************************************************************************)
LifecycleConfigs == {ValidConfig, [ValidConfig EXCEPT !.thing_name = ""]}
LifecycleFilters == {"app/1", LongFilter}
LifecycleArgs == {<<1, "h2">>}

Next ==
    \/ Initialize(LifecycleConfigs)
    \/ ConnectApp(ConnectEnvs)
    \/ Disconnect
    \/ Subscribe(LifecycleFilters, LifecycleArgs)
    \/ Unsubscribe(LifecycleFilters)
    \/ TransportEmit(EventIds)
    \/ HandleMqttEvent(TimerEnvs)
    \/ TimerExpire
    \/ ReconnectTimerCallbackStatic(ConnectEnvs)

Spec == Init /\ [][Next]_vars

(***************************************************************************)
(* SpecRegistry: the subscription table under Subscribe/Unsubscribe of     *)
(* kMaxSubs + 1 filters, before and after the session is established;      *)
(* only the transport's subscribe and unsubscribe calls may fail.          *)
(***************************************************************************)
RegistryArgs == {<<0, "h1">>, <<1, "h2">>}

NextRegistry ==
    \/ Initialize({ValidConfig})
    \/ ConnectApp({ConnectOk})
    \/ Subscribe(Filters, RegistryArgs)
    \/ Unsubscribe(Filters)
    \/ TransportEmit({"CONNECTED"})
    \/ HandleMqttEvent({TimerOk})

SpecRegistry == Init /\ [][NextRegistry]_vars

(***************************************************************************)
(* SpecResubscribe: two filters over sessions that connect, drop and are   *)
(* reconnected by the timer; only the transport's subscribe and            *)
(* unsubscribe calls may fail.                                             *)
(***************************************************************************)
ResubscribeFilters == {"app/1", "app/2"}
ResubscribeArgs == {<<1, "h2">>}

NextResubscribe ==
    \/ Initialize({ValidConfig})
    \/ ConnectApp({ConnectOk})
    \/ Subscribe(ResubscribeFilters, ResubscribeArgs)
    \/ Unsubscribe(ResubscribeFilters)
    \/ TransportEmit({"CONNECTED", "DISCONNECTED"})
    \/ HandleMqttEvent({TimerOk})
    \/ TimerExpire
    \/ ReconnectTimerCallbackStatic({ConnectOk})

SpecResubscribe == Init /\ [][NextResubscribe]_vars

(***************************************************************************)
(* SpecConfig: Initialize offered every configuration, on a fresh and on   *)
(* an initialized client, over sessions that connect, drop and are closed. *)
(***************************************************************************)
\* a second configuration that passes the validation
OtherConfig == [ValidConfig EXCEPT !.thing_name = "U", !.client_id = "other"]

ConfigInputs == Configs \cup {OtherConfig}

NextConfig ==
    \/ Initialize(ConfigInputs)
    \/ ConnectApp({ConnectOk})
    \/ Disconnect
    \/ TransportEmit({"CONNECTED", "DISCONNECTED"})
    \/ HandleMqttEvent({TimerOk})
    \/ TimerExpire
    \/ ReconnectTimerCallbackStatic({ConnectOk})

SpecConfig == Init /\ [][NextConfig]_vars

(***************************************************************************)
(* SpecCallbacks: the connection callbacks and one message handler, set    *)
(* and cleared at any time, over sessions that connect, fail and drop;     *)
(* an invoked callback returns or calls back into the client.              *)
(***************************************************************************)
CallbackFilters == {"app/1"}
CallbackArgs == {<<1, "h2">>}
CallbackPayloads == {"{}"}

NextCallbacks ==
    \/ Initialize({ValidConfig})
    \/ ConnectApp({ConnectOk})
    \/ Disconnect
    \/ SetOnConnectedCallback
    \/ SetOnDisconnectedCallback
    \/ Subscribe(CallbackFilters, CallbackArgs)
    \/ TransportEmit({"CONNECTED", "ERROR", "DISCONNECTED"})
    \/ TransportEmitData(CallbackFilters, CallbackPayloads)
    \/ HandleMqttEventWith({TimerOk}, CallbackBodies)
    \/ TimerExpire
    \/ ReconnectTimerCallbackStatic({ConnectOk})

SpecCallbacks == Init /\ [][NextCallbacks]_vars

(***************************************************************************)
(* SpecDispatch: messages on the shadow, jobs and application topics of    *)
(* thing T, delivered to a connected client whose structured and generic   *)
(* handlers are installed and removed at any time.                         *)
(***************************************************************************)
JobIds == {"job-7"}

ShadowUpdateTopics ==
    {ShadowTopic(ValidConfig.thing_name, "update/accepted")}

ShadowGetTopics == {ShadowTopic(ValidConfig.thing_name, "get/accepted")}

JobsUpdateTopics ==
    {JobsTopic(ValidConfig.thing_name, op, id) :
       op \in {"update/accepted", "update/rejected"}, id \in JobIds}

\* jobs topics that carry no job update: an empty job id, another operation
JobsOtherTopics ==
    {JobsPrefix(ValidConfig.thing_name) \o "/update/rejected",
     JobsTopic(ValidConfig.thing_name, "get", "job-7")}

DispatchTopics ==
    ShadowUpdateTopics \cup ShadowGetTopics \cup JobsUpdateTopics
      \cup JobsOtherTopics
      \cup {JobsNotifyNext(ValidConfig.thing_name), "app/1", "app/none"}

DispatchFilters == {"app/1"}
DispatchArgs == {<<1, "h2">>}
DispatchPayloads == {"{}"}

NextDispatch ==
    \/ Initialize({ValidConfig})
    \/ ConnectApp({ConnectOk})
    \/ Subscribe(DispatchFilters, DispatchArgs)
    \/ SubscribeToShadowUpdates({"s1"})
    \/ SubscribeToShadowGetResponses({"s2"})
    \/ SubscribeToJobs({"j1"})
    \/ TransportEmit({"CONNECTED"})
    \/ TransportEmitData(DispatchTopics, DispatchPayloads)
    \/ TransportEmitData(DispatchFilters, {NullData})
    \/ HandleMqttEvent({TimerOk})

SpecDispatch == Init /\ [][NextDispatch]_vars

(***************************************************************************)
(* SpecFallback: application subscriptions on an application topic and on  *)
(* shadow and jobs topics of the thing, with and without the structured    *)
(* handlers registered.                                                    *)
(***************************************************************************)
FallbackFilters ==
    {"app/1", ShadowTopic(ValidConfig.thing_name, "update/accepted")}

FallbackTopics ==
    FallbackFilters
      \cup {"app/none",
            JobsTopic(ValidConfig.thing_name, "update/accepted", "job-7")}

FallbackArgs == {<<1, "h2">>}

NextFallback ==
    \/ Initialize({ValidConfig})
    \/ ConnectApp({ConnectOk})
    \/ Subscribe(FallbackFilters, FallbackArgs)
    \/ Unsubscribe(FallbackFilters)
    \/ SubscribeToShadowUpdates({"s1"})
    \/ SubscribeToJobs({"j1"})
    \/ TransportEmit({"CONNECTED"})
    \/ TransportEmitData(FallbackTopics, DispatchPayloads)
    \/ HandleMqttEvent({TimerOk})

SpecFallback == Init /\ [][NextFallback]_vars

(***************************************************************************)
(* SpecIgnored: every kind of event, messages included, in flight while     *)
(* the application connects and disconnects, with the connection callbacks *)
(* and one message handler registered.                                     *)
(***************************************************************************)
NextIgnored ==
    \/ Initialize({ValidConfig})
    \/ ConnectApp({ConnectOk})
    \/ Disconnect
    \/ SetOnConnectedCallback
    \/ SetOnDisconnectedCallback
    \/ Subscribe(CallbackFilters, CallbackArgs)
    \/ TransportEmit(EventIds)
    \/ TransportEmitData(CallbackFilters, CallbackPayloads)
    \/ HandleMqttEvent({TimerOk})
    \/ TimerExpire
    \/ ReconnectTimerCallbackStatic({ConnectOk})

SpecIgnored == Init /\ [][NextIgnored]_vars

(***************************************************************************)
(* SpecBackoff: the reconnect delay under configurations whose base and    *)
(* max lie anywhere in the machine word, over sessions that fail and drop. *)
(***************************************************************************)
BackoffBases == {1, 6, 12}
BackoffMaxes == {12, 20, DelayModulus - 1}

BackoffConfigs ==
    { [ValidConfig EXCEPT !.base_reconnect_ms = b, !.max_reconnect_ms = x] :
        b \in BackoffBases, x \in BackoffMaxes }

NextBackoff ==
    \/ Initialize(BackoffConfigs)
    \/ ConnectApp({ConnectOk})
    \/ TransportEmit({"CONNECTED", "ERROR", "DISCONNECTED", "DELETED"})
    \/ HandleMqttEvent({TimerOk})
    \/ TimerExpire
    \/ ReconnectTimerCallbackStatic({ConnectOk})

SpecBackoff == Init /\ [][NextBackoff]_vars

(***************************************************************************)
(* SpecImpl: AwsIotClientImpl over connections that are lost: one          *)
(* application thread sets the client up and connects, both use the        *)
(* connection, and the yield task runs the SDK.                            *)
(***************************************************************************)
NextImpl ==
    \/ load_configuration({"A"})
    \/ set_certificate_internal({"A"}, CertNames)
    \/ set_on_disconnected_callback({"A"})
    \/ connect({"A"}, ImplConnectEnvs)
    \/ disconnect_internal({"A"})
    \/ publish(AppThreads, ImplRcs)
    \/ subscribe(AppThreads, ImplFilters, ImplRcs)
    \/ unsubscribe(AppThreads, ImplFilters, ImplRcs)
    \/ handle_potential_disconnect_error(AppThreads)
    \/ NetworkLost
    \/ aws_disconnect_callback
    \/ trigger_disconnected_callback(ImplThreads)

SpecImpl == Init /\ [][NextImpl]_vars

(***************************************************************************)
(* SpecRetry: one filter subscribed, updated with two qos and handlers and *)
(* unsubscribed, the transport's calls failing, with messages on the       *)
(* filter, over sessions that drop and are reconnected by the timer.       *)
(***************************************************************************)
RetryFilters == {"app/1"}
RetryArgs == {<<0, "h1">>, <<1, "h2">>}

NextRetry ==
    \/ Initialize({ValidConfig})
    \/ ConnectApp({ConnectOk})
    \/ Subscribe(RetryFilters, RetryArgs)
    \/ Unsubscribe(RetryFilters)
    \/ TransportEmit({"CONNECTED", "DISCONNECTED"})
    \/ TransportEmitData(RetryFilters, DispatchPayloads)
    \/ HandleMqttEvent({TimerOk})
    \/ TimerExpire
    \/ ReconnectTimerCallbackStatic({ConnectOk})

SpecRetry == Init /\ [][NextRetry]_vars

(***************************************************************************)
(* SpecPublish: Publish at any time, with topics and payloads it accepts   *)
(* and refuses, over sessions that connect, drop, are reconnected by the   *)
(* timer and are closed.                                                   *)
(***************************************************************************)
PublishTopics == {"app/1", LongFilter}
PublishPayloads == {<<"{}", 2>>, <<NullData, 2>>, <<NullData, 0>>}
PublishQos == {0, 1}

NextPublish ==
    \/ Initialize({ValidConfig})
    \/ ConnectApp({ConnectOk})
    \/ Disconnect
    \/ Subscribe(CallbackFilters, CallbackArgs)
    \/ Publish(PublishTopics, PublishPayloads, PublishQos)
    \/ TransportEmit({"CONNECTED", "DISCONNECTED", "DELETED"})
    \/ HandleMqttEvent({TimerOk})
    \/ TimerExpire
    \/ ReconnectTimerCallbackStatic({ConnectOk})

SpecPublish == Init /\ [][NextPublish]_vars

(***************************************************************************)
(* SpecImplSubscribe: AwsIotClientImpl with two filters subscribed and      *)
(* unsubscribed by two threads over a connection whose SDK calls fail.     *)
(***************************************************************************)
ImplSubscribeFilters == {"app/1", "app/2"}

NextImplSubscribe ==
    \/ load_configuration({"A"})
    \/ set_certificate_internal({"A"}, CertNames)
    \/ connect({"A"}, {ImplConnectOk})
    \/ disconnect_internal({"A"})
    \/ subscribe(AppThreads, ImplSubscribeFilters, ImplRcs)
    \/ unsubscribe(AppThreads, ImplSubscribeFilters, ImplRcs)
    \/ handle_potential_disconnect_error(AppThreads)
    \/ NetworkLost
    \/ trigger_disconnected_callback(AppThreads)

SpecImplSubscribe == Init /\ [][NextImplSubscribe]_vars

(***************************************************************************)
(* Properties.                                                             *)
(***************************************************************************)

\* a step of the client operation op: every operation names itself in
\* last, and the two environment steps, which leave last alone, are the only
\* ones that make an event or a tick pending
OpStep(op) ==
    /\ last'.op = op
    /\ ~(event_pending = NoEvent /\ event_pending' # NoEvent)
    /\ ~(~tick_pending /\ tick_pending')

\* OpStep names the steps of the actions
OpStepNamesActions ==
    [][ /\ OpStep("Initialize") <=> Initialize(ConfigInputs)
        /\ OpStep("Connect") <=> ConnectApp(ConnectEnvs)
        /\ OpStep("Disconnect") <=> Disconnect
        /\ OpStep("Subscribe") <=> Subscribe(SubscribeFilters, SubscribeArgs)
        /\ OpStep("Unsubscribe") <=> Unsubscribe(SubscribeFilters)
        /\ OpStep("HandleMqttEvent") <=> HandleMqttEvent(TimerEnvs)
        /\ OpStep("ReconnectTimerCallbackStatic")
             <=> ReconnectTimerCallbackStatic(ConnectEnvs) ]_vars

\* a step that is Connect(), called by the application or by the timer
ConnectStep == OpStep("Connect") \/ OpStep("ReconnectTimerCallbackStatic")

\* a step that processes event id with no disconnect requested
EventStep(id) ==
    /\ OpStep("HandleMqttEvent")
    /\ event_pending.id = id
    /\ ~disconnect_requested

\* the transport or timer call c was made by the operation that ran last
Made(l, c) == \E k \in 1..Len(l.calls) : l.calls[k] = c

MadeKind(l, kind) == \E k \in 1..Len(l.calls) : l.calls[k][1] = kind

\* C1: Connect() called while the controller is Connecting or Connected
\* returns false, makes no transport call, and leaves the connection state,
\* the transport handle and the reconnect state unchanged.
C1_ConnectWhileBusyFails ==
    [][ (ConnectStep /\ (connected \/ connecting)) =>
          /\ last'.ret = FALSE
          /\ last'.calls = <<>>
          /\ UNCHANGED <<connected, connecting, client_handle, session,
                         current_reconnect_delay_ms, armed_timers,
                         reconnect_timer_handle>> ]_vars

\* C2: every Connect() that returns success leaves the controller
\* Connecting, on the first connect and on a reconnect that recreates the
\* transport handle of the previous session.
C2_AcceptedConnectIsConnecting ==
    [][ (ConnectStep /\ last'.ret = TRUE) => connecting' ]_vars

\* C3: the stored reconnect delay never decreases except when a Connected
\* event is processed, so the delays armed across consecutive unexpected
\* disconnects are non-decreasing; each armed delay is min(2 * previous, max).
C3_DelayResetOnlyOnConnected ==
    [][ /\ current_reconnect_delay_ms' < current_reconnect_delay_ms
           => EventStep("CONNECTED")
        /\ (OpStep("HandleMqttEvent") /\ MadeKind(last', "TimerArm"))
           => LET twice == 2 * current_reconnect_delay_ms
                  max == config.max_reconnect_ms
              IN Made(last', <<"TimerArm",
                               IF twice < max THEN twice ELSE max>>) ]_vars

\* a connect attempt is outstanding, or the next one is scheduled
Retrying ==
    \/ connected \/ connecting
    \/ session = "starting"
    \/ armed_timers > 0

\* C4: while Disconnect() has not been called the client keeps retrying: a
\* timer-driven Connect() leaves it Connected, with a connect attempt
\* outstanding, or with the reconnect timer armed, also when that Connect()
\* fails synchronously.
C4_TimerConnectKeepsRetrying ==
    [][ (OpStep("ReconnectTimerCallbackStatic") /\ ~disconnect_requested)
          => Retrying' ]_vars

AllActivePending ==
    \A i \in Slots :
      subscriptions[i].active => subscriptions[i].pending_subscribe

\* every active entry is still active with the same filter, QoS and handler
EntriesKept ==
    \A i \in Slots :
      subscriptions[i].active =>
        /\ subscriptions'[i].active
        /\ subscriptions'[i].topic = subscriptions[i].topic
        /\ subscriptions'[i].qos = subscriptions[i].qos
        /\ subscriptions'[i].callback = subscriptions[i].callback

\* C5: across an unexpected disconnect and the following reconnect every
\* active entry stays active with its QoS and handler; after the reconnect
\* it is not pending exactly when its subscribe was re-sent successfully
\* during that reconnect, and pending exactly when the resend failed.
C5_SubscriptionsSurviveReconnect ==
    [][ /\ EventStep("DISCONNECTED") => (EntriesKept /\ AllActivePending')
        /\ (AllActivePending /\ ~connected /\ ~EventStep("CONNECTED"))
             => (AllActivePending' /\ ~connected')
        /\ (AllActivePending /\ EventStep("CONNECTED")) =>
             /\ EntriesKept
             /\ \A i \in Slots :
                  subscriptions[i].active =>
                    Made(last', <<"Subscribe", subscriptions[i].topic,
                                  subscriptions[i].qos,
                                  ~subscriptions'[i].pending_subscribe>>)
        /\ ~(OpStep("Subscribe") \/ OpStep("Unsubscribe")) => EntriesKept ]_vars

\* C5 witness: a reconnect, after an unexpected disconnect, in which one
\* resend succeeded and another failed
C5_Witness ==
    /\ last.op = "HandleMqttEvent" /\ last.args = <<"CONNECTED">>
    /\ connected /\ reconnect_timer_handle
    /\ \E i, j \in Slots :
         /\ subscriptions[i].active /\ ~subscriptions[i].pending_subscribe
         /\ subscriptions[j].active /\ subscriptions[j].pending_subscribe
         /\ Made(last, <<"Subscribe", subscriptions[i].topic,
                         subscriptions[i].qos, TRUE>>)
         /\ Made(last, <<"Subscribe", subscriptions[j].topic,
                         subscriptions[j].qos, FALSE>>)

\* C6: Disconnect() stops the reconnect timer and sets the
\* disconnect-requested flag; the flag stays set while a timer tick is in
\* flight, and a tick that runs with the flag set makes no transport call
\* and changes nothing.
C6_NoConnectAfterDisconnect ==
    [][ /\ OpStep("Disconnect") => (disconnect_requested' /\ armed_timers' = 0)
        /\ disconnect_requested' => armed_timers' = 0
        /\ (disconnect_requested /\ tick_pending) => disconnect_requested'
        /\ (OpStep("ReconnectTimerCallbackStatic") /\ disconnect_requested)
             => /\ last'.ret = FALSE
                /\ last'.calls = <<>>
                /\ UNCHANGED <<connected, connecting, client_handle, session,
                               live_handles, armed_timers>> ]_vars

\* C6 witness: a tick that was in flight when Disconnect() took the lock has
\* run after it
C6_Witness ==
    /\ last.op = "ReconnectTimerCallbackStatic"
    /\ last.pre.disconnect_requested
    /\ last.ret = FALSE
    /\ ~tick_pending

C8_ConnectAcceptedAfterDisconnect ==
    (/\ initialized
     /\ last.op = "Disconnect"
     /\ last.pre.connected \/ last.pre.connecting)
      => Connect(Pack, ConnectOk).ret = TRUE

\* what the code does instead: once set on an initialized client, the
\* disconnect-requested flag is never cleared
DisconnectRequestedIsPermanent ==
    [][ (initialized /\ disconnect_requested) => disconnect_requested' ]_vars

\* the filter is held by an active slot
Holds(subs, f) == \E i \in Slots : subs[i].active /\ subs[i].topic = f

\* C9: Subscribe of a filter the registry does not hold, when every slot is
\* active, returns false, leaves every slot and the active count unchanged,
\* and sends nothing to the transport.
C9_SubscribeBeyondCapacityRejected ==
    [][ (/\ OpStep("Subscribe")
         /\ \A i \in Slots : subscriptions[i].active
         /\ ~Holds(subscriptions, last'.args[1]))
          => /\ last'.ret = FALSE
             /\ last'.calls = <<>>
             /\ subscriptions' = subscriptions
             /\ active_subscription_count' = active_subscription_count
             /\ active_subscription_count' = kMaxSubs ]_vars

\* C9 witness: a Subscribe of one more distinct filter was rejected by a
\* full registry
C9_Witness ==
    /\ connected
    /\ last.op = "Subscribe"
    /\ last.args[1] \in Filters
    /\ ~last.ret
    /\ \A i \in Slots : subscriptions[i].active
    /\ ~Holds(subscriptions, last.args[1])
    /\ active_subscription_count = kMaxSubs

\* C10: Subscribe of a filter that is already active replaces that entry's
\* QoS and handler in place: no other slot changes, the active count is
\* unchanged and exactly one active entry holds the filter.
C10_ResubscribeUpdatesInPlace ==
    [][ (/\ OpStep("Subscribe")
         /\ Holds(subscriptions, last'.args[1]))
          => LET f == last'.args[1]
                 i == CHOOSE k \in Slots : /\ subscriptions[k].active
                                           /\ subscriptions[k].topic = f
             IN /\ subscriptions'[i].active
                /\ subscriptions'[i].topic = f
                /\ subscriptions'[i].qos = last'.args[2]
                /\ subscriptions'[i].callback = last'.args[3]
                /\ \A j \in Slots \ {i} : subscriptions'[j] = subscriptions[j]
                /\ active_subscription_count' = active_subscription_count
                /\ Cardinality({j \in Slots : /\ subscriptions'[j].active
                                              /\ subscriptions'[j].topic = f})
                     = 1 ]_vars

\* C10 witness: a Subscribe found its filter in a slot behind a vacated one
\* and updated it
C10_Witness ==
    /\ last.op = "Subscribe"
    /\ last.pre.count = active_subscription_count
    /\ ~subscriptions[1].active
    /\ \E i \in Slots :
         /\ subscriptions[i].active
         /\ subscriptions[i].topic = last.args[1]
         /\ subscriptions[i].qos = last.args[2]
         /\ subscriptions[i].callback = last.args[3]

\* the client is closed: not connected or connecting, no transport handle,
\* no timer armed, disconnect requested
Closed ==
    /\ disconnect_requested
    /\ ~connected /\ ~connecting
    /\ ~client_handle
    /\ armed_timers = 0

C12_InitializeTwiceRejected ==
    [][ (OpStep("Initialize") /\ initialized)
          => /\ last'.ret = FALSE
             /\ UNCHANGED <<initialized, connected, connecting,
                            disconnect_requested, client_handle, config,
                            current_reconnect_delay_ms,
                            reconnect_timer_handle, subscriptions,
                            active_subscription_count, armed_timers,
                            session, live_handles>> ]_vars

\* a configuration the specification calls invalid
InvalidConfig(cfg) ==
    \/ cfg.aws_endpoint = "" \/ cfg.client_id = "" \/ cfg.thing_name = ""
    \/ cfg.port = 0
    \/ ~cfg.root_ca_pem \/ ~cfg.device_cert_pem \/ ~cfg.private_key_pem

\* C13: Initialize of a fresh client with an empty endpoint, client id or
\* thing name, a zero port or a missing credential returns false and leaves
\* the client uninitialized; an uninitialized client rejects Connect().
C13_InvalidConfigRejected ==
    [][ /\ (OpStep("Initialize") /\ ~initialized
            /\ InvalidConfig(last'.args[1]))
             => (last'.ret = FALSE /\ ~initialized' /\ config' = config)
        /\ ~initialized => Connect(Pack, ConnectOk).ret = FALSE ]_vars

\* C20: Unsubscribe of a filter no active slot holds returns false, changes
\* no slot and not the count, and sends nothing; Unsubscribe of an active
\* filter clears exactly the slot that holds it, decrements the count, and
\* the slot is the one a later Subscribe of a new filter may take.
C20_UnsubscribeClearsOneSlot ==
    [][ OpStep("Unsubscribe") =>
          LET f == last'.args[1]
          IN IF ~initialized \/ ~Holds(subscriptions, f)
             THEN /\ last'.ret = FALSE
                  /\ last'.calls = <<>>
                  /\ subscriptions' = subscriptions
                  /\ active_subscription_count' = active_subscription_count
             ELSE LET i == CHOOSE k \in Slots : /\ subscriptions[k].active
                                                /\ subscriptions[k].topic = f
                  IN /\ ~subscriptions'[i].active
                     /\ ~subscriptions'[i].pending_subscribe
                     /\ subscriptions'[i].callback = NullCb
                     /\ subscriptions'[i].topic = ""
                     /\ \A j \in Slots \ {i} :
                          subscriptions'[j] = subscriptions[j]
                     /\ active_subscription_count'
                          = active_subscription_count - 1
                     /\ ~Holds(subscriptions', f)
                     /\ \A g \in Filters :
                          ~Holds(subscriptions', g) =>
                            SubscribeOp(Pack', g, 1, "h1", TRUE).ret ]_vars

\* C20 witness: a Subscribe of a new filter took the slot an Unsubscribe
\* had cleared in a full registry
C20_Witness ==
    /\ last.op = "Subscribe"
    /\ last.ret
    /\ last.pre.count = kMaxSubs - 1
    /\ active_subscription_count = kMaxSubs
    /\ subscriptions[1].topic = last.args[1]
    /\ \A i \in Slots : subscriptions[i].active
    /\ connected

\* how many times the operation that ran last invoked the named callback
CountCb(l, name) ==
    Cardinality({k \in 1..Len(l.cbs) : l.cbs[k][1] = name})

\* C14: an event handled as Disconnected while the client is Connected
\* invokes the registered disconnected callback exactly once; every other
\* event, Disconnected or Error while not Connected and Error while
\* Connected included, invokes it zero times.
C14_DisconnectedCallbackOncePerDrop ==
    [][ OpStep("HandleMqttEvent") =>
          CountCb(last', "on_disconnected")
            = IF /\ event_pending.id = "DISCONNECTED"
                 /\ connected /\ on_disconnected_cb
              THEN 1 ELSE 0 ]_vars

\* C14 witness: the drop of an established session was reported once
C14_Witness ==
    /\ last.op = "HandleMqttEvent" /\ last.args = <<"DISCONNECTED">>
    /\ last.pre.connected
    /\ CountCb(last, "on_disconnected") = 1
    /\ halted = "no"
    /\ armed_timers = 1

\* C15: every user callback is invoked with mutex_ released, and no callback
\* that calls back into the client stops the client.
C15_CallbacksRunUnlocked ==
    /\ \A k \in 1..Len(last.cb_locks) : ~last.cb_locks[k]
    /\ halted = "no"

\* C16: every access of an operation to the state mutex_ guards, the
\* references to the shadow and jobs handlers included, is made with mutex_
\* held, so that no handler reference is ever written while it is in use.
C16_SharedStateUnderMutex ==
    /\ last.unlocked = <<>>
    /\ TornCb \notin {shadow_update_cb, shadow_get_cb, job_notify_cb}

\* C17: with a shadow handler registered, a message whose topic is the
\* shadow prefix of the thing followed by update/accepted invokes the shadow
\* handler, and nothing else, exactly once, with subtype "update" and the
\* payload as received.
C17_ShadowUpdateSubtype ==
    [][ ( /\ EventStep("DATA")
          /\ event_pending.topic
               = ShadowPrefix(config.thing_name) \o "update/accepted"
          /\ event_pending.data # NullData
          /\ shadow_update_cb \notin {NullCb, TornCb} )
        => last'.cbs = << <<"shadow_update", shadow_update_cb, "update",
                            event_pending.data>> >> ]_vars

\* the job id of a jobs update topic of the thing: what stands between the
\* jobs prefix and the given suffix, "" if the topic is not of that form
JobIdOf(topic, thing_name, suffix) ==
    LET P == JobsPrefix(thing_name)
        n == Len(topic)
    IN IF /\ n > Len(P) + Len(suffix)
          /\ SubSeq(topic, 1, Len(P)) = P
          /\ SubSeq(topic, n - Len(suffix) + 1, n) = suffix
       THEN SubSeq(topic, Len(P) + 1, n - Len(suffix))
       ELSE ""

\* C18: with a jobs handler registered, a message on the jobs prefix of the
\* thing followed by <job-id>/update/rejected invokes the jobs handler, and
\* nothing else, exactly once with that job id and status REJECTED, and
\* <job-id>/update/accepted with status ACCEPTED; a topic under the jobs
\* prefix with neither suffix or with an empty job id (notify-next aside)
\* invokes no jobs handler.
C18_JobsUpdateRouting ==
    [][ ( /\ EventStep("DATA")
          /\ event_pending.data # NullData
          /\ job_notify_cb \notin {NullCb, TornCb} )
        => LET topic == event_pending.topic
               T == config.thing_name
               rejected == JobIdOf(topic, T, "/update/rejected")
               accepted == JobIdOf(topic, T, "/update/accepted")
           IN IF rejected # ""
              THEN last'.cbs = << <<"job_notify", job_notify_cb, rejected,
                                    "REJECTED", event_pending.data>> >>
              ELSE IF accepted # ""
              THEN last'.cbs = << <<"job_notify", job_notify_cb, accepted,
                                    "ACCEPTED", event_pending.data>> >>
              ELSE ( /\ StrNEq(topic, JobsPrefix(T), Len(JobsPrefix(T)))
                     /\ topic # JobsNotifyNext(T) )
                   => CountCb(last', "job_notify") = 0 ]_vars

\* the delivered topic matches a registered structured handler: a shadow
\* topic of the thing with its handler registered, or a jobs update or
\* notify-next topic of the thing with the jobs handler registered
MatchesStructured(topic) ==
    LET T == config.thing_name
    IN \/ /\ shadow_update_cb # NullCb
          /\ \E op \in {"update/accepted", "update/rejected", "update/delta"} :
               topic = ShadowPrefix(T) \o op
       \/ /\ shadow_get_cb # NullCb
          /\ \E op \in {"get/accepted", "get/rejected"} :
               topic = ShadowPrefix(T) \o op
       \/ /\ job_notify_cb # NullCb
          /\ \/ topic = JobsNotifyNext(T)
             \/ JobIdOf(topic, T, "/update/accepted") # ""
             \/ JobIdOf(topic, T, "/update/rejected") # ""

\* the delivered topic is the topic of an active generic subscription that
\* has a handler
MatchesGeneric(topic) ==
    \E i \in Slots : /\ subscriptions[i].active
                     /\ subscriptions[i].callback # NullCb
                     /\ subscriptions[i].topic = topic

\* C19: a message invokes at most one handler; it invokes exactly one when
\* its topic matches a registered structured handler or an active generic
\* subscription with a handler, and otherwise none, leaving connection
\* state, registry and reconnect state as they were.
C19_ExactlyOneHandlerWhenMatched ==
    [][ ( /\ EventStep("DATA")
          /\ event_pending.data # NullData
          /\ TornCb \notin {shadow_update_cb, shadow_get_cb, job_notify_cb} )
        => LET topic == event_pending.topic
           IN /\ Len(last'.cbs) <= 1
              /\ IF MatchesStructured(topic) \/ MatchesGeneric(topic)
                 THEN Len(last'.cbs) = 1
                 ELSE /\ Len(last'.cbs) = 0
                      /\ UNCHANGED <<initialized, connected, connecting,
                                     disconnect_requested, client_handle,
                                     subscriptions, active_subscription_count,
                                     current_reconnect_delay_ms,
                                     reconnect_timer_handle, armed_timers>>
      ]_vars

\* the filter fits a topic buffer and the registry has a slot for it
Accepted(subs, f) ==
    /\ Len(f) < kMaxTopicLen
    /\ (Holds(subs, f) \/ \E i \in Slots : ~subs[i].active)

\* C21: a Subscribe accepted while the client is initialized and not
\* Connected returns true without a transport call and leaves the filter in
\* an active entry that is pending; a pending entry of a client that is not
\* Connected stays as it is until it is unsubscribed or a Connected event is
\* processed, and processing that event passes its filter to the transport's
\* subscribe call.
C21_PendingSubscribeSentOnConnect ==
    [][ /\ ( /\ OpStep("Subscribe")
             /\ initialized /\ ~connected
             /\ Accepted(subscriptions, last'.args[1]) )
           => /\ last'.ret = TRUE
              /\ last'.calls = <<>>
              /\ \E i \in Slots :
                   /\ subscriptions'[i].active
                   /\ subscriptions'[i].pending_subscribe
                   /\ subscriptions'[i].topic = last'.args[1]
        /\ \A i \in Slots :
             ( /\ ~connected
               /\ subscriptions[i].active
               /\ subscriptions[i].pending_subscribe )
             => \/ /\ EventStep("CONNECTED")
                   /\ \E sent \in BOOLEAN :
                        Made(last', <<"Subscribe", subscriptions[i].topic,
                                      subscriptions[i].qos, sent>>)
                \/ /\ OpStep("Unsubscribe")
                   /\ last'.args[1] = subscriptions[i].topic
                \/ /\ ~connected'
                   /\ subscriptions'[i].active
                   /\ subscriptions'[i].pending_subscribe
                   /\ subscriptions'[i].topic = subscriptions[i].topic
      ]_vars

\* C21 witness: a Connected event passed to the transport the filter of an
\* entry that was subscribed before the session existed
C21_Witness ==
    /\ last.op = "HandleMqttEvent" /\ last.args = <<"CONNECTED">>
    /\ connected /\ ~last.pre.connected
    /\ ~reconnect_timer_handle
    /\ \E i \in Slots :
         /\ subscriptions[i].active
         /\ ~subscriptions[i].pending_subscribe
         /\ Made(last, <<"Subscribe", subscriptions[i].topic,
                         subscriptions[i].qos, TRUE>>)

\* C22: processing a Connected event attempts a transport subscribe for
\* every active entry, whatever its pending flag was and however the
\* previous session ended.
C22_ConnectedResubscribesAllActive ==
    [][ EventStep("CONNECTED") =>
          \A i \in Slots :
            subscriptions[i].active =>
              \E sent \in BOOLEAN :
                Made(last', <<"Subscribe", subscriptions[i].topic,
                              subscriptions[i].qos, sent>>) ]_vars

\* C23: processing an Error event clears the connecting flag when the client
\* is Connecting and changes nothing else, in any state: no entry is marked
\* pending, the reconnect delay is kept, no timer is armed or stopped, and no
\* callback is invoked.
C23_ErrorOnlyClearsConnecting ==
    [][ EventStep("ERROR") =>
          /\ ~connecting'
          /\ last'.cbs = <<>>
          /\ last'.calls = <<>>
          /\ UNCHANGED <<initialized, connected, disconnect_requested,
                         client_handle, subscriptions,
                         active_subscription_count,
                         current_reconnect_delay_ms, reconnect_timer_handle,
                         armed_timers>> ]_vars

\* Connect() is accepted: the client is initialized, idle, and no disconnect
\* was requested
ConnectAccepted ==
    /\ initialized
    /\ ~connected /\ ~connecting
    /\ ~disconnect_requested

\* C24: an accepted Connect() either succeeds or fails as a whole: when a
\* transport call of it fails (Init, the registration of the event handler,
\* or Start) it returns false, the client is neither Connecting nor
\* Connected, it holds no transport handle, and the handle the call created
\* and the one held before are released; it returns true only with all
\* three calls made and the new handle held.
C24_FailedConnectRollsBack ==
    [][ (ConnectStep /\ ConnectAccepted) =>
          IF last'.ret
          THEN /\ client_handle'
               /\ last'.calls[Len(last'.calls)] = <<"Start">>
          ELSE /\ ~connecting' /\ ~connected'
               /\ ~client_handle'
               /\ live_handles'
                    = live_handles - (IF client_handle THEN 1 ELSE 0)
               /\ MadeKind(last', "Init")
               /\ last'.calls[Len(last'.calls)]
                    \in {<<"Init">>, <<"Destroy">>} ]_vars

\* C24 witness: a Connect() that created a handle and could not start it
C24_Witness ==
    /\ last.op \in {"Connect", "ReconnectTimerCallbackStatic"}
    /\ ~last.ret
    /\ Made(last, <<"Start">>)
    /\ Made(last, <<"Destroy">>)
    /\ ~client_handle /\ ~connecting

\* C25: an Error or Disconnected event processed while the client is
\* Connecting, with no disconnect requested, leaves it in a state in which
\* Connect() is accepted, also when the reconnect timer could not be armed;
\* and a Connect() called in such a state, by the application or by the
\* timer, goes on to create the transport client.
C25_ConnectAcceptedAfterAsyncFailure ==
    [][ /\ ( /\ EventStep("ERROR") \/ EventStep("DISCONNECTED")
             /\ connecting )
           => ConnectAccepted'
        /\ (ConnectStep /\ ConnectAccepted) => MadeKind(last', "Init")
      ]_vars

\* C25 witness: the connect attempt was answered by a Disconnected event,
\* the reconnect timer could not be armed, and Connect() is accepted
C25_Witness ==
    /\ last.op = "HandleMqttEvent" /\ last.args = <<"DISCONNECTED">>
    /\ last.pre.connecting
    /\ armed_timers = 0
    /\ ConnectAccepted

C27_AtMostOneLiveHandle ==
    [][ /\ live_handles' <= 1
        /\ (ConnectStep /\ MadeKind(last', "Init") /\ live_handles > 0)
             => /\ Len(last'.calls) >= 3
                /\ last'.calls[1] = <<"Stop">>
                /\ last'.calls[2] = <<"Destroy">>
                /\ last'.calls[3] = <<"Init">>
        /\ OpStep("Disconnect") => (~client_handle' /\ live_handles' = 0)
      ]_vars

\* C28: an event of any kind processed while disconnect_requested_ is set
\* changes nothing: the connection state, the handle, the subscription
\* table, the reconnect delay and the timer stay as they were, no transport
\* or timer call is made and no callback or message handler is invoked.
C28_EventsIgnoredAfterDisconnect ==
    [][ (OpStep("HandleMqttEvent") /\ disconnect_requested)
        => /\ UNCHANGED <<initialized, connected, connecting,
                          disconnect_requested, client_handle, config,
                          current_reconnect_delay_ms, reconnect_timer_handle,
                          subscriptions, active_subscription_count,
                          on_connected_cb, on_disconnected_cb,
                          shadow_update_cb, shadow_get_cb, job_notify_cb,
                          armed_timers, tick_pending, session, live_handles>>
           /\ last'.calls = <<>>
           /\ last'.cbs = <<>>
      ]_vars

\* C28 witness: a message for an active subscription with a handler was
\* processed after Disconnect() and before any further Connect()
C28_Witness ==
    /\ last.op = "HandleMqttEvent"
    /\ last.args[1] = "DATA"
    /\ last.pre.disconnect_requested
    /\ \E i \in Slots :
         /\ subscriptions[i].active
         /\ subscriptions[i].callback # NullCb
         /\ subscriptions[i].topic = last.args[2]
    /\ last.cbs = <<>>

\* C30: with base <= max, every ScheduleReconnect() stores the smaller of
\* twice the previous delay and max, a value between base and max that is
\* not below the previous delay, also when twice the previous delay does
\* not fit the machine word.
C30_DelayIsMinOfDoubleAndMax ==
    [][ ( /\ OpStep("HandleMqttEvent")
          /\ MadeKind(last', "TimerArm")
          /\ config.base_reconnect_ms <= config.max_reconnect_ms )
        => LET previous == current_reconnect_delay_ms
               doubled == 2 * previous
               expected == IF doubled < config.max_reconnect_ms
                           THEN doubled ELSE config.max_reconnect_ms
           IN /\ current_reconnect_delay_ms' = expected
              /\ current_reconnect_delay_ms' >= config.base_reconnect_ms
              /\ current_reconnect_delay_ms' <= config.max_reconnect_ms
              /\ current_reconnect_delay_ms' >= previous
      ]_vars

\* threads of AwsIotClientImpl that won the exchange and have yet to call
\* the disconnected callback
Triggering(i) == {t \in ImplThreads : i.pc[t] = "trigger"}

\* C29: in AwsIotClientImpl a publish, subscribe or unsubscribe whose SDK
\* call fails with a code that indicates a lost connection marks the client
\* disconnected and returns false, and each change of is_connected_ from
\* true to false made by that error path or by aws_disconnect_callback is
\* followed by one call of the disconnected callback, by the thread that
\* made the change: no such change is notified twice, and no thread that
\* made it is left waiting for good before the callback.
C29_DisconnectedCallbackOncePerTransition ==
    [][ /\ \A t \in AppThreads :
             (impl.pc[t] = "exchange" /\ impl'.pc[t] # "exchange")
               => ~impl'.is_connected
        /\ (impl'.done # impl.done /\ DisconnectIndicated(impl'.done.rc))
             => impl'.done.ret = "false"
        /\ impl'.notified + Cardinality(Triggering(impl')) = impl'.transitions
        /\ Triggering(impl') # {}
             => \A u \in ImplThreads : impl'.pc[u] # "stuck"
      ]_vars

\* C29: while no thread is blocked with mutex_, each change of is_connected_
\* from true to false by the error path or the SDK callback is notified once
C29_OncePerTransitionWhileNotBlocked ==
    (\A u \in ImplThreads : impl.pc[u] # "stuck")
      => /\ impl.notified + Cardinality(Triggering(impl)) = impl.transitions
         /\ (impl.done.rc # "none" /\ DisconnectIndicated(impl.done.rc))
              => impl.done.ret = "false"

\* C29: the error path of a publish and the SDK callback both ran the
\* exchange for one connection, and the callback was called once
C29_RaceReached ==
    /\ impl.saw["B"] # "none"
    /\ impl.saw[YieldTask] # "none"
    /\ impl.pc["B"] = "idle"
    /\ impl.pc[YieldTask] = "idle"
    /\ impl.done.thread = "B"
    /\ impl.done.op = "publish"
    /\ impl.transitions = 1
    /\ impl.fired = 1

\* C31: in every reachable state connected_ and connecting_ are not both
\* true, IsConnected() returns true exactly when the client is connected,
\* and a transport handle is held whenever one of the two flags is true.
C31_FlagsExclusiveAndHandleHeld ==
    /\ ~(connected /\ connecting)
    /\ IsConnected <=> (connected /\ ~connecting)
    /\ (connected \/ connecting) => client_handle

\* C32: in every reachable state active_subscription_count_ is the number of
\* active slots and at most kMaxSubs, no two active slots hold the same
\* filter, and every slot with pending_subscribe set is active.
C32_RegistryConsistent ==
    /\ active_subscription_count
         = Cardinality({i \in Slots : subscriptions[i].active})
    /\ active_subscription_count <= kMaxSubs
    /\ \A i, j \in Slots :
         (/\ i # j
          /\ subscriptions[i].active
          /\ subscriptions[j].active)
           => subscriptions[i].topic # subscriptions[j].topic
    /\ \A i \in Slots :
         subscriptions[i].pending_subscribe => subscriptions[i].active

\* C32 witness: the table is full, an entry is left pending by a transport
\* subscribe that failed while connected, after an entry had been removed
C32_Witness ==
    /\ connected
    /\ active_subscription_count = kMaxSubs
    /\ last.op = "Subscribe"
    /\ ~last.ret
    /\ last.pre.count = kMaxSubs - 1
    /\ \E i \in Slots :
         subscriptions[i].active /\ subscriptions[i].pending_subscribe

C34_FailedSubscribeStaysPending ==
    [][ /\ ( /\ OpStep("Subscribe")
             /\ connected /\ client_handle
             /\ Made(last', <<"Subscribe", last'.args[1], last'.args[2],
                              FALSE>>) )
           => /\ last'.ret = FALSE
              /\ \E i \in Slots :
                   /\ subscriptions'[i].active
                   /\ subscriptions'[i].pending_subscribe
                   /\ subscriptions'[i].topic = last'.args[1]
                   /\ subscriptions'[i].qos = last'.args[2]
                   /\ subscriptions'[i].callback = last'.args[3]
                   /\ \A j \in Slots \ {i} :
                        subscriptions'[j] = subscriptions[j]
        /\ \A i \in Slots :
             (subscriptions[i].active /\ subscriptions[i].pending_subscribe)
             => \/ /\ EventStep("CONNECTED")
                   /\ \E sent \in BOOLEAN :
                        Made(last', <<"Subscribe", subscriptions[i].topic,
                                      subscriptions[i].qos, sent>>)
                \/ /\ OpStep("Subscribe") \/ OpStep("Unsubscribe")
                   /\ last'.args[1] = subscriptions[i].topic
                \/ subscriptions'[i] = subscriptions[i]
      ]_vars

\* C34 witness: the update of a registered filter failed at the transport
\* while connected; the entry holds the qos and handler of the failed call
\* and is pending
C34_Witness ==
    /\ last.op = "Subscribe"
    /\ last.ret = FALSE
    /\ last.pre.connected
    /\ last.pre.count = 1
    /\ active_subscription_count = 1
    /\ \E i \in Slots :
         /\ subscriptions[i].active
         /\ subscriptions[i].pending_subscribe
         /\ subscriptions[i].topic = last.args[1]
         /\ subscriptions[i].qos = last.args[2]
         /\ subscriptions[i].callback = last.args[3]

\* C35: Unsubscribe of a filter held by an active entry leaves no active
\* entry with that filter, whether it returns true or false; it returns
\* false exactly when the client is connected and the transport's
\* unsubscribe call fails; and while no active entry holds a filter, a
\* Connected event sends no subscribe for it and a message on it reaches no
\* subscription handler.
C35_UnsubscribeRemovesBeforeSend ==
    [][ /\ ( /\ OpStep("Unsubscribe")
             /\ Holds(subscriptions, last'.args[1]) )
           => /\ ~Holds(subscriptions', last'.args[1])
              /\ \A i \in Slots :
                   ~subscriptions'[i].active
                     => ~subscriptions'[i].pending_subscribe
              /\ last'.ret = FALSE
                   <=> /\ connected /\ client_handle
                       /\ Made(last', <<"Unsubscribe", last'.args[1], FALSE>>)
        /\ \A f \in RetryFilters :
             ~Holds(subscriptions, f)
               => /\ EventStep("CONNECTED")
                       => \A k \in 1..Len(last'.calls) :
                            ~( /\ last'.calls[k][1] = "Subscribe"
                               /\ last'.calls[k][2] = f )
                  /\ (EventStep("DATA") /\ event_pending.topic = f)
                       => CountCb(last', "message") = 0
      ]_vars

\* C35 witness: an Unsubscribe that failed at the transport while connected
\* left no entry for the filter
C35_Witness ==
    /\ last.op = "Unsubscribe"
    /\ last.ret = FALSE
    /\ last.pre.connected
    /\ last.pre.count = 1
    /\ active_subscription_count = 0
    /\ ~Holds(subscriptions, last.args[1])
    /\ Made(last, <<"Unsubscribe", last.args[1], FALSE>>)

\* C35: a message on a filter arrives after the filter was unsubscribed
C35_MessageAfterUnsubscribe ==
    /\ last.op = "HandleMqttEvent"
    /\ last.args[1] = "DATA"
    /\ ~last.pre.disconnect_requested
    /\ last.pre.count = 0
    /\ last.cbs = <<>>

\* C36: Publish, whatever it returns, changes neither the connection flags,
\* the handle, the subscription table, the reconnect delay nor the timer;
\* when the client is not connected or holds no transport handle it returns
\* false without a transport call, and it returns true only when the
\* transport accepted the message.
C36_PublishChangesNothing ==
    [][ OpStep("Publish")
        => /\ UNCHANGED <<initialized, connected, connecting,
                          disconnect_requested, client_handle, config,
                          current_reconnect_delay_ms, reconnect_timer_handle,
                          subscriptions, active_subscription_count,
                          on_connected_cb, on_disconnected_cb,
                          shadow_update_cb, shadow_get_cb, job_notify_cb,
                          armed_timers, tick_pending, session, live_handles,
                          event_pending, halted>>
           /\ last'.cbs = <<>>
           /\ \A k \in 1..Len(last'.calls) : last'.calls[k][1] = "Publish"
           /\ (~connected \/ ~client_handle)
                => (last'.ret = FALSE /\ last'.calls = <<>>)
           /\ last'.ret = TRUE
                <=> Made(last', <<"Publish", last'.args[1], last'.args[2],
                                  last'.args[3], last'.args[4], TRUE>>)
      ]_vars

\* C36 witness: a Publish made while a reconnect is scheduled was refused
\* without a transport call and left the timer armed
C36_Witness ==
    /\ last.op = "Publish"
    /\ last.ret = FALSE
    /\ last.calls = <<>>
    /\ ~connected
    /\ armed_timers = 1
    /\ active_subscription_count = 1

\* C36: a Publish the transport refused while connected
C36_FailedSend ==
    /\ last.op = "Publish"
    /\ last.ret = FALSE
    /\ connected
    /\ Len(last.calls) = 1

\* C37: Disconnect invokes no user callback, whatever the state it is called
\* in; the disconnected callback is invoked only by the handling of a
\* Disconnected event that finds the client connected with no disconnect
\* requested, and by nothing once Disconnect has been called.
C37_DisconnectNeverNotifies ==
    [][ /\ OpStep("Disconnect") => last'.cbs = <<>>
        /\ (last' # last /\ CountCb(last', "on_disconnected") > 0)
             => /\ EventStep("DISCONNECTED")
                /\ connected
      ]_vars

\* C37 witness: Disconnect called on an established session, with a
\* disconnected callback registered, returned without invoking it
C37_Witness ==
    /\ last.op = "Disconnect"
    /\ last.pre.connected
    /\ on_disconnected_cb
    /\ last.cbs = <<>>
    /\ ~connected
    /\ disconnect_requested

\* C37: the Disconnected event of the session that Disconnect closed was
\* handled without a callback
C37_LateEventSilent ==
    /\ last.op = "HandleMqttEvent" /\ last.args = <<"DISCONNECTED">>
    /\ last.pre.disconnect_requested
    /\ on_disconnected_cb
    /\ last.cbs = <<>>

\* C38: when the SDK call of a subscribe fails, the handler map holds no
\* handler for the filter of the call once the call has erased it, whether
\* or not the filter had a handler before the call; the handlers of the other
\* filters are left alone.
C38_FailedSubscribeErasesHandler ==
    [][ (impl'.sub # impl.sub /\ impl'.sub.rc # "SUCCESS")
          => /\ impl'.sub.filter \notin impl'.handlers
             /\ impl'.handlers = impl.handlers \ {impl'.sub.filter}
      ]_vars

\* C38 witness: a subscribe on a filter that had a handler failed at the SDK
\* with the connection up, and the filter is left without a handler while the
\* other filter keeps its own
C38_Witness ==
    /\ impl.sub.filter = "app/1"
    /\ impl.sub.had
    /\ impl.sub.rc = "MQTT_REQUEST_TIMEOUT_ERROR"
    /\ impl.done.op = "subscribe" /\ impl.done.ret = "false"
    /\ impl.is_connected
    /\ impl.handlers = {"app/2"}

\* C39: a connect() whose aws_iot_mqtt_connect step fails returns false and
\* leaves the client not connected, initialized when auto-reconnect is
\* enabled and freed when it is disabled.  While the client is initialized
\* and not connected every connect() returns false without a call to the SDK
\* and changes nothing, and only disconnect() ends that state.  After a
\* failure with auto-reconnect disabled the next connect() reaches the SDK.
C39_FailedConnectBlocksUntilDisconnect ==
    [][ /\ ( /\ impl'.done # impl.done
             /\ impl'.done.op = "connect" /\ impl'.done.rc = "connect" )
             => /\ impl'.done.ret = "false"
                /\ ~impl'.is_connected
                /\ impl'.client_initialized = impl.auto_reconnect
                /\ impl'.auto_reconnect = impl.auto_reconnect
        /\ ( /\ impl.client_initialized /\ ~impl.is_connected
             /\ impl'.done # impl.done
             /\ impl'.done.op = "connect" )
             => /\ impl'.done.rc = "none" /\ impl'.done.ret = "false"
                /\ impl'.client_initialized /\ ~impl'.is_connected
                /\ impl'.net = impl.net
                /\ impl'.connects = impl.connects
        /\ ( /\ impl.client_initialized /\ ~impl.is_connected
             /\ ~(impl'.client_initialized /\ ~impl'.is_connected) )
             => /\ impl'.done.op = "disconnect"
                /\ ~impl'.client_initialized
        /\ ( /\ impl.done.op = "connect" /\ impl.done.rc = "connect"
             /\ ~impl.auto_reconnect
             /\ impl'.done # impl.done
             /\ impl'.done.op = "connect" )
             => impl'.done.rc \in {"init", "connect", "task", "SUCCESS"}
      ]_vars

\* C39 witness: with auto-reconnect enabled and no connection ever made, a
\* connect() was refused without a call to the SDK because an earlier
\* connect() failed and left the client initialized
C39_Witness ==
    /\ impl.auto_reconnect
    /\ impl.connects = 0
    /\ impl.client_initialized /\ ~impl.is_connected
    /\ impl.done.op = "connect" /\ impl.done.rc = "none"
    /\ impl.done.ret = "false"

\* C39: with auto-reconnect disabled the failed connect() freed the client
C39_FreedAfterFailure ==
    /\ ~impl.auto_reconnect
    /\ impl.done.op = "connect" /\ impl.done.rc = "connect"
    /\ ~impl.client_initialized /\ ~impl.is_connected

====
